---- MODULE Spec2Model ----
(***************************************************************************)
(* A model of the intent and entity resolution engine of baller:           *)
(*   - EntityCache (src/bot/intent/cache.py): the reference-data cache,    *)
(*     its readiness gate (load_event), initialize() and the lookups;      *)
(*   - EntityExtractor, ConversationContext and IntentProcessor            *)
(*     (src/bot/intent/entities.py, context.py, processor.py).             *)
(*                                                                         *)
(* The program runs on one asyncio event loop: the code between two awaits *)
(* is one atomic step, and each action below is such a step.               *)
(***************************************************************************)
EXTENDS Integers, Sequences, FiniteSets, TLC

VARIABLES
    \* ---- EntityCache ----
    teams,               \* name -> team record
    teams_by_id,         \* id key -> team record
    competitions,        \* name -> competition record
    competitions_by_id,  \* id key -> competition record
    load_event,          \* the readiness gate (asyncio.Event): TRUE = set
    football_api,        \* whether a data-source client was given to __init__
    disk,                \* the two cache files, teams.json and competitions.json
    now,                 \* time.time(), in seconds
    ticks,               \* how many times the clock has been advanced
    ipc,                 \* per initialize() call: where it is suspended
    iidx,                \* per initialize() call: position in the major-competition loop
    silent,              \* the data source has stopped answering: its calls never return
    rpc,                 \* per get_team() call: where it is suspended
    rkey,                \* per get_team() call: its argument
    rres,                \* per get_team() call: what it returned
    fetch_log,           \* the error log of the team loop, when it is read
    \* ---- EntityExtractor, IntentProcessor ----
    team_cache,          \* EntityExtractor.team_cache: the team table, in insertion order
    contexts,            \* IntentProcessor.contexts: user id -> ConversationContext
    turns,               \* how many process_message calls have been made
    user,                \* the user id of the last process_message call
    text,                \* the message of the last process_message call
    result,              \* what the last process_message call returned or raised
    ready,               \* the process_message tasks the event loop has still to run
    serial,              \* the calls made so far, run one after the other on arrival
    calls,               \* how many direct calls of ConversationContext methods were made
    returned,            \* what the last direct call of a ConversationContext method returned
    appended,            \* every intent add_intent was called with, in call order
    added,               \* every list add_entities was called with directly, in call order
    upsert,              \* the last add_team / add_competition call and how many were made
    \* ---- api.utils ----
    retry                \* the call of a function wrapped by async_retry

cacheVars == <<teams, teams_by_id, competitions, competitions_by_id, load_event,
               football_api, disk, ipc, iidx, silent, rpc, rkey, rres, fetch_log>>
clockVars == <<now, ticks>>
callVars == <<calls, returned, appended, added, retry, upsert>>
procVars == <<team_cache, contexts, turns, user, text, result, ready, serial, callVars>>
vars == <<cacheVars, clockVars, procVars>>

-----------------------------------------------------------------------------
(* Bounds of the model *)

MaxInits == 2      \* initialize() calls made on the one cache
MaxReaders == 1    \* get_team() calls made on the one cache
MaxTicks == 2      \* advances of the clock
MaxTurns == 2      \* process_message calls

Inits == 1..MaxInits
Readers == 1..MaxReaders

-----------------------------------------------------------------------------
(* EntityCache: data *)

DEFAULT_TTL == 86400

StartTime == 200000

\* dict.get("name") / dict.get("id") of a record that lacks the field: a falsy value
NoName == ""
NoId == 0

Arsenal == [name |-> "Arsenal", id |-> 57]
Barcelona == [name |-> "FC Barcelona", id |-> 81]
Nameless == [name |-> NoName, id |-> 99]
PremierLeague == [name |-> "Premier League", id |-> 2021]
PrimeraDivision == [name |-> "Primera Division", id |-> 2014]

\* the competitions whose teams _load_cache_from_api fetches, in order
MajorCompetitions == <<2021, 2014, 2002, 2019, 2015>>

\* what the data source answers when it answers
RemoteCompetitions == <<PremierLeague, PrimeraDivision>>
RemoteTeams(comp_id) ==
    IF comp_id = 2021 THEN <<Arsenal, Nameless>>
    ELSE IF comp_id = 2014 THEN <<Barcelona>>
    ELSE <<>>

\* an index (a dict) is a function on the set of its keys
EmptyIndex == [k \in {} |-> Arsenal]
Put(index, k, v) == [x \in (DOMAIN index) \cup {k} |-> IF x = k THEN v ELSE index[x]]

\* the key of the id index: an int when the record came from the data source,
\* a string when the index was read back from a JSON file
IntKey(id) == <<"int", id>>
StrKey(id) == <<"str", id>>

\* Optional[record]: <<>> is None
None == <<>>
Some(rec) == <<rec>>
Get(index, k) == IF k \in DOMAIN index THEN Some(index[k]) ELSE None

\* the indexes of the cache as one value
CacheState == [teams |-> teams, teams_by_id |-> teams_by_id,
               competitions |-> competitions, competitions_by_id |-> competitions_by_id]

\* for team in teams: if team_name and team_id: teams[name] = team; teams_by_id[id] = team
RECURSIVE AddTeams(_, _)
AddTeams(st, recs) ==
    IF recs = <<>> THEN st
    ELSE LET rec == Head(recs)
             st1 == IF rec.name # NoName /\ rec.id # NoId
                    THEN [st EXCEPT !.teams = Put(@, rec.name, rec),
                                    !.teams_by_id = Put(@, IntKey(rec.id), rec)]
                    ELSE st
         IN AddTeams(st1, Tail(recs))

RECURSIVE AddCompetitions(_, _)
AddCompetitions(st, recs) ==
    IF recs = <<>> THEN st
    ELSE LET rec == Head(recs)
             st1 == IF rec.name # NoName /\ rec.id # NoId
                    THEN [st EXCEPT !.competitions = Put(@, rec.name, rec),
                                    !.competitions_by_id = Put(@, IntKey(rec.id), rec)]
                    ELSE st
         IN AddCompetitions(st1, Tail(recs))

-----------------------------------------------------------------------------
(* EntityCache: durable storage *)

\* json.dump writes every key of a dict as a string; of two keys that become the
\* same string the later-inserted one (the int key, added by the API load) is the
\* one json.load keeps
JsonKeys(byid) ==
    [k \in {StrKey(x[2]) : x \in DOMAIN byid} |->
        IF IntKey(k[2]) \in DOMAIN byid THEN byid[IntKey(k[2])] ELSE byid[StrKey(k[2])]]

AbsentFile == [kind |-> "absent", names |-> EmptyIndex, ids |-> EmptyIndex, timestamp |-> 0]
CorruptFile == [kind |-> "corrupt", names |-> EmptyIndex, ids |-> EmptyIndex, timestamp |-> 0]
CacheFile(names, ids, t) == [kind |-> "ok", names |-> names, ids |-> JsonKeys(ids), timestamp |-> t]

\* what a failed save leaves behind: open(path, 'w') raised, the file is as it was
FailedSaves(file) == {file}

\* _load_cache_from_disk: the indexes after it, and its return value
LoadCacheFromDisk(st, files, t) ==
    LET tf == files.teams
        cf == files.comps
        s1 == IF tf.kind = "ok"
              THEN [st EXCEPT !.teams = tf.names, !.teams_by_id = tf.ids]
              ELSE st
        s2 == IF cf.kind = "ok"
              THEN [s1 EXCEPT !.competitions = cf.names, !.competitions_by_id = cf.ids]
              ELSE s1
    IN  IF tf.kind = "corrupt" THEN [st |-> st, loaded |-> FALSE]
        ELSE IF tf.kind = "ok" /\ t - tf.timestamp > DEFAULT_TTL THEN [st |-> s1, loaded |-> FALSE]
        ELSE IF cf.kind = "corrupt" THEN [st |-> s1, loaded |-> FALSE]
        ELSE IF cf.kind = "ok" /\ t - cf.timestamp > DEFAULT_TTL THEN [st |-> s2, loaded |-> FALSE]
        ELSE [st |-> s2,
              loaded |-> (DOMAIN s2.teams # {} \/ DOMAIN s2.competitions # {})]

-----------------------------------------------------------------------------
(* EntityCache: the readiness gate *)

\* __init__: self.load_event.set()  -- "Start as set, clear during loading"
InitialGateUnset == FALSE
InitialGate == TRUE

\* the finally clause of _load_cache_from_api: load_event.set() whether or not
\* the try block failed
GateSetOnlyOnSuccess(gate, failed) == IF failed THEN gate ELSE TRUE
GateAfterLoad(gate, failed) == TRUE

\* except Exception as e: logger.error(...) around the load: the exception is
\* logged and not raised again, initialize() returns
Reraises(failed) == IF failed THEN "raised" ELSE "done"
Returns(failed) == "done"

\* asyncio.Event.set(): every waiter's future is resolved; a resolved waiter
\* returns from wait() even if the event is cleared again before it runs
WakeWaiters(gate, pcs) ==
    [r \in Readers |-> IF gate /\ pcs[r] = "waiting" THEN "woken" ELSE pcs[r]]

\* initialize(): if not cache_loaded and self.football_api
NeedsApiLoad(cache_loaded, api) == ~cache_loaded /\ api

InFlight(i) == ipc[i] \in {"comps", "teams"}

-----------------------------------------------------------------------------
(* EntityCache: lookups *)

\* an argument of get_team: a name, an int, or an all-digit string
NameArg(name) == <<"name", name, 0>>
IntArg(n) == <<"int", "", n>>
DigitsArg(n) == <<"digits", "", n>>
LookupArgs == {NameArg("Arsenal"), DigitsArg(57)}

\* get_team after the wait: by id for an int or an all-digit string, else by name
GetTeamResult(st, arg) ==
    IF arg[1] \in {"int", "digits"}
    THEN Get(st.teams_by_id, IntKey(arg[3]))
    ELSE Get(st.teams, arg[2])

-----------------------------------------------------------------------------
(* Lists *)

RECURSIVE Flatten(_)
Flatten(lists) == IF lists = <<>> THEN <<>> ELSE Head(lists) \o Flatten(Tail(lists))

\* sorted(list, key=...) and list.sort(key=..., reverse=True) are stable: items
\* of equal key keep their order.  The list is given as pairs <<key, item>>.
RECURSIVE InsertAscending(_, _)
InsertAscending(sorted, p) ==
    IF sorted = <<>> THEN <<p>>
    ELSE IF Head(sorted)[1] <= p[1]
         THEN <<Head(sorted)>> \o InsertAscending(Tail(sorted), p)
         ELSE <<p>> \o sorted

RECURSIVE InsertDescending(_, _)
InsertDescending(sorted, p) ==
    IF sorted = <<>> THEN <<p>>
    ELSE IF Head(sorted)[1] >= p[1]
         THEN <<Head(sorted)>> \o InsertDescending(Tail(sorted), p)
         ELSE <<p>> \o sorted

\* the items of a list, as a set
Range(list) == {list[i] : i \in 1..Len(list)}

Items(pairs) == [i \in 1..Len(pairs) |-> pairs[i][2]]

RECURSIVE SortAscending(_)
SortAscending(pairs) ==
    IF pairs = <<>> THEN <<>>
    ELSE InsertAscending(SortAscending(SubSeq(pairs, 1, Len(pairs) - 1)), pairs[Len(pairs)])

RECURSIVE SortDescending(_)
SortDescending(pairs) ==
    IF pairs = <<>> THEN <<>>
    ELSE InsertDescending(SortDescending(SubSeq(pairs, 1, Len(pairs) - 1)), pairs[Len(pairs)])

Max(a, b) == IF a >= b THEN a ELSE b
Least(S) == CHOOSE i \in S : \A j \in S : i <= j

-----------------------------------------------------------------------------
(* Entity *)

\* confidences are held in units of 1/6000, in which every value the code
\* computes (hundredths, their halves, the decay per second) is an integer
Unit == 6000
Pct(n) == n * (Unit \div 100)

TEAM == "team"
COMPETITION == "competition"
TIMEFRAME == "timeframe"
STATUS == "status"

\* Entity.metadata: the keys of the dict, and the values of the date keys as day
\* numbers (days since 1970-01-01)
NoMetadata == [keys |-> {}, date |-> 0, date_from |-> 0, date_to |-> 0]
DateMetadata(d) == [keys |-> {"date"}, date |-> d, date_from |-> 0, date_to |-> 0]
RangeMetadata(a, b) == [keys |-> {"date_from", "date_to"}, date |-> 0, date_from |-> a, date_to |-> b]
TeamMetadata == [keys |-> {"shortName", "tla"}, date |-> 0, date_from |-> 0, date_to |-> 0]

\* id = NoId is id=None
Entity(type, value, id, confidence, start, end, metadata) ==
    [type |-> type, value |-> value, id |-> id, confidence |-> confidence,
     start |-> start, end |-> end, metadata |-> metadata]

-----------------------------------------------------------------------------
(* EntityExtractor *)

\* A message is the sequence of its words and phrases; start and end of a match
\* are counted in them.  str.lower() of the words that are not lower case:
Lower(s) ==
    CASE s = "Premier League" -> "premier league"
      [] s = "EPL" -> "epl"
      [] s = "La Liga" -> "la liga"
      [] s = "LA LIGA" -> "la liga"
      [] s = "Arsenal" -> "arsenal"
      [] s = "Standings" -> "standings"
      [] OTHER -> s

text_lower(txt) == [i \in 1..Len(txt) |-> Lower(txt[i])]

\* re.finditer(r'\b(?:w1|w2|...)\b', text_lower): where it matches, left to right
Positions(tl, words) == SelectSeq([i \in 1..Len(tl) |-> i], LAMBDA i : tl[i] \in words)

COMPETITION_PATTERNS == <<
    [words |-> {"premier league", "epl", "english premier league"}, name |-> "Premier League", id |-> 2021],
    [words |-> {"la liga", "laliga", "spanish la liga"}, name |-> "La Liga", id |-> 2014],
    [words |-> {"bundesliga", "german bundesliga"}, name |-> "Bundesliga", id |-> 2002],
    [words |-> {"serie a", "italian serie a"}, name |-> "Serie A", id |-> 2019],
    [words |-> {"ligue 1", "french ligue 1"}, name |-> "Ligue 1", id |-> 2015],
    [words |-> {"champions league", "ucl", "uefa champions league"}, name |-> "UEFA Champions League", id |-> 2001],
    [words |-> {"europa league", "uel", "uefa europa league"}, name |-> "UEFA Europa League", id |-> 2146],
    [words |-> {"world cup", "fifa world cup"}, name |-> "FIFA World Cup", id |-> 2000],
    [words |-> {"competition"}, name |-> NoName, id |-> NoId] >>

TIMEFRAME_PATTERNS == <<
    [words |-> {"today", "tonight"}, name |-> "today", has_offset |-> TRUE, days_offset |-> 0],
    [words |-> {"tomorrow"}, name |-> "tomorrow", has_offset |-> TRUE, days_offset |-> 1],
    [words |-> {"yesterday"}, name |-> "yesterday", has_offset |-> TRUE, days_offset |-> -1],
    [words |-> {"this weekend", "upcoming weekend"}, name |-> "weekend", has_offset |-> FALSE, days_offset |-> 0],
    [words |-> {"this week", "current week"}, name |-> "week", has_offset |-> FALSE, days_offset |-> 0],
    [words |-> {"next week"}, name |-> "next_week", has_offset |-> FALSE, days_offset |-> 0],
    [words |-> {"next weekend"}, name |-> "next_weekend", has_offset |-> FALSE, days_offset |-> 0] >>

STATUS_PATTERNS == <<
    [words |-> {"scheduled", "upcoming", "future"}, status |-> "SCHEDULED"],
    [words |-> {"live", "ongoing", "in progress"}, status |-> "IN_PLAY"],
    [words |-> {"finished", "completed", "past", "final", "fulltime", "full-time"}, status |-> "FINISHED"],
    [words |-> {"postponed"}, status |-> "POSTPONED"],
    [words |-> {"canceled", "cancelled"}, status |-> "CANCELLED"] >>

\* date.today() as a day number, and date.weekday() (Monday is 0; day 0 was a Thursday)
SecondsPerDay == 86400
today(t) == t \div SecondsPerDay
\* date.isoweekday() (Monday is 1)
IsoWeekday(d) == ((d + 3) % 7) + 1
weekday(d) == (d + 3) % 7

\* re.search in place of re.finditer: the first match of each pattern only
FirstMatches(tl) ==
    Flatten([r \in 1..Len(COMPETITION_PATTERNS) |->
        LET row == COMPETITION_PATTERNS[r]
            ps == Positions(tl, row.words)
        IN [k \in 1..(IF ps = <<>> THEN 0 ELSE 1) |->
              Entity(COMPETITION,
                     IF row.name # NoName THEN row.name ELSE tl[ps[k]],
                     row.id,
                     IF row.id # NoId THEN Pct(90) ELSE Pct(70),
                     ps[k] - 1, ps[k], NoMetadata)]])

extract_competitions(tl) ==
    Flatten([r \in 1..Len(COMPETITION_PATTERNS) |->
        LET row == COMPETITION_PATTERNS[r]
            ps == Positions(tl, row.words)
        IN [k \in 1..Len(ps) |->
              Entity(COMPETITION,
                     IF row.name # NoName THEN row.name ELSE tl[ps[k]],
                     row.id,
                     IF row.id # NoId THEN Pct(90) ELSE Pct(70),
                     ps[k] - 1, ps[k], NoMetadata)]])

timeframe_metadata(row, t) ==
    LET d == today(t)
        days_until_saturday == (5 - weekday(d)) % 7
    IN  IF row.has_offset THEN DateMetadata(d + row.days_offset)
        ELSE IF row.name = "weekend"
             THEN RangeMetadata(d + days_until_saturday, d + days_until_saturday + 1)
        ELSE IF row.name = "week" THEN RangeMetadata(d, d + 7)
        ELSE IF row.name = "next_week" THEN RangeMetadata(d + 7, d + 14)
        ELSE IF row.name = "next_weekend"
             THEN LET n == IF days_until_saturday = 0 THEN 7 ELSE days_until_saturday
                  IN RangeMetadata(d + n, d + n + 1)
        ELSE NoMetadata

extract_timeframes(tl, t) ==
    Flatten([r \in 1..Len(TIMEFRAME_PATTERNS) |->
        LET row == TIMEFRAME_PATTERNS[r]
            ps == Positions(tl, row.words)
        IN [k \in 1..Len(ps) |->
              Entity(TIMEFRAME, row.name, NoId, Pct(90), ps[k] - 1, ps[k],
                     timeframe_metadata(row, t))]])

extract_statuses(tl) ==
    Flatten([r \in 1..Len(STATUS_PATTERNS) |->
        LET row == STATUS_PATTERNS[r]
            ps == Positions(tl, row.words)
        IN [k \in 1..Len(ps) |->
              Entity(STATUS, row.status, NoId, Pct(80), ps[k] - 1, ps[k], NoMetadata)]])

\* the team table is a sequence of [name, id] in the insertion order of the dict
extract_teams(tl, cache) ==
    Flatten([r \in 1..Len(cache) |->
        LET ps == Positions(tl, {Lower(cache[r].name)})
        IN [k \in 1..Len(ps) |->
              Entity(TEAM, cache[r].name, cache[r].id, Pct(95), ps[k] - 1, ps[k],
                     TeamMetadata)]])

extract_entities(txt, cache, t) ==
    LET tl == text_lower(txt)
        found == extract_competitions(tl) \o extract_timeframes(tl, t)
                 \o extract_statuses(tl)
                 \o (IF cache # <<>> THEN extract_teams(tl, cache) ELSE <<>>)
        located == SelectSeq(found, LAMBDA e : e.start # -1)
    IN Items(SortAscending([i \in 1..Len(located) |-> <<located[i].start, located[i]>>]))

-----------------------------------------------------------------------------
(* ConversationContext *)

ACTIVE_CONTEXT_TTL == 600
HISTORY_TTL == 3600
\* 0.1, in units of confidence
CONFIDENCE_DECAY == Unit \div 10

NoTimestamps == [k \in {} |-> 0]

\* __init__.  entities, a dict of lists keyed by type, is the sequence of its
\* [type, items] in insertion order; entity_timestamps is a function on its keys
NewContext(user_id, t) ==
    [user_id |-> user_id, entities |-> <<>>, entity_timestamps |-> NoTimestamps,
     recent_intents |-> <<>>, last_active |-> t]

\* f"{type}:{value}" plus f":{id}" if entity.id
entity_id(e) == <<e.type, e.value, e.id>>

\* entity_timestamps.get(entity_id, 0)
timestamp_of(ctx, e) ==
    IF entity_id(e) \in DOMAIN ctx.entity_timestamps
    THEN ctx.entity_timestamps[entity_id(e)]
    ELSE 0

\* entities.get(entity_type, [])
EntitiesOfType(ctx, type) ==
    LET at == {i \in 1..Len(ctx.entities) : ctx.entities[i].type = type}
    IN IF at = {} THEN <<>> ELSE ctx.entities[Least(at)].items

\* entities[entity_type] = items
SetEntitiesOfType(ctx, type, items) ==
    LET at == {i \in 1..Len(ctx.entities) : ctx.entities[i].type = type}
    IN IF at = {}
       THEN [ctx EXCEPT !.entities = Append(@, [type |-> type, items |-> items])]
       ELSE [ctx EXCEPT !.entities[Least(at)].items = items]

\* the else branch of the loop of add_entities, taken whatever is stored
AppendEntity(ctx, e, t) ==
    [SetEntitiesOfType(ctx, e.type, Append(EntitiesOfType(ctx, e.type), e)) EXCEPT
          !.entity_timestamps = Put(@, entity_id(e), t)]

\* the body of the loop of add_entities
AddEntity(ctx, e, t) ==
    LET items == EntitiesOfType(ctx, e.type)
        same == {i \in 1..Len(items) :
                    Lower(items[i].value) = Lower(e.value) /\ items[i].id = e.id}
        items1 == IF same # {}
                  THEN [items EXCEPT ![Least(same)] =
                          [e EXCEPT !.confidence = Max(items[Least(same)].confidence, e.confidence)]]
                  ELSE Append(items, e)
    IN [SetEntitiesOfType(ctx, e.type, items1) EXCEPT
          !.entity_timestamps = Put(@, entity_id(e), t)]

RECURSIVE AddEntities(_, _, _)
AddEntities(ctx, es, t) ==
    IF es = <<>> THEN ctx ELSE AddEntities(AddEntity(ctx, Head(es), t), Tail(es), t)

add_entities(ctx, es, t) == AddEntities([ctx EXCEPT !.last_active = t], es, t)

\* recent_intents[-5:], and the list not cut
KeepAll(list) == list
Last5(list) == IF Len(list) <= 5 THEN list ELSE SubSeq(list, Len(list) - 4, Len(list))

add_intent(ctx, intent_name, confidence, entities, t) ==
    [ctx EXCEPT !.last_active = t,
                !.recent_intents = Last5(Append(@, [name |-> intent_name,
                                                   confidence |-> confidence,
                                                   entities |-> entities,
                                                   timestamp |-> t]))]

AlwaysActive(ctx, e, current_time) == TRUE
is_entity_active(ctx, e, current_time) == current_time - timestamp_of(ctx, e) <= HISTORY_TTL

clean_expired_entities(ctx, current_time) ==
    LET kept == [i \in 1..Len(ctx.entities) |->
                   [type |-> ctx.entities[i].type,
                    items |-> SelectSeq(ctx.entities[i].items,
                                        LAMBDA e : is_entity_active(ctx, e, current_time))]]
        stamps == ctx.entity_timestamps
    IN [ctx EXCEPT
          !.entities = SelectSeq(kept, LAMBDA en : en.items # <<>>),
          !.entity_timestamps =
              [k \in {x \in DOMAIN stamps : current_time - stamps[x] <= HISTORY_TTL} |-> stamps[k]],
          !.recent_intents =
              SelectSeq(@, LAMBDA it : current_time - it.timestamp <= HISTORY_TTL)]

\* get_entities_by_type: the context after the pruning; the list returned is
\* EntitiesOfType of it
ReturnUnpruned(ctx, current_time) == ctx
get_entities_by_type(ctx, current_time) == clean_expired_entities(ctx, current_time)

\* get_entity_by_value: the first entity of the pruned list of the type whose
\* value is the given one, case ignored, or None
get_entity_by_value(ctx, type, value, current_time) ==
    LET entities == EntitiesOfType(get_entities_by_type(ctx, current_time), type)
        same == {i \in 1..Len(entities) : Lower(entities[i].value) = Lower(value)}
    IN IF same = {} THEN None ELSE Some(entities[Least(same)])

\* get_most_recent_entities: the list returned; the context after the call is
\* clean_expired_entities of it
get_most_recent_entities(ctx, limit, current_time) ==
    LET pruned == clean_expired_entities(ctx, current_time)
        all_entities == Flatten([i \in 1..Len(pruned.entities) |-> pruned.entities[i].items])
        sorted_entities ==
            SortDescending([i \in 1..Len(all_entities) |->
                              <<timestamp_of(pruned, all_entities[i]), all_entities[i]>>])
    IN SubSeq(Items(sorted_entities), 1, IF Len(sorted_entities) < limit
                                         THEN Len(sorted_entities) ELSE limit)

get_last_intent(ctx) ==
    IF ctx.recent_intents = <<>> THEN None
    ELSE Some(ctx.recent_intents[Len(ctx.recent_intents)])

StoredConfidence(ctx, e, current_time) == e.confidence
get_entity_confidence(ctx, e, current_time) ==
    LET elapsed_seconds == current_time - timestamp_of(ctx, e)
    IN IF elapsed_seconds > ACTIVE_CONTEXT_TTL
       THEN Max(0, e.confidence - (CONFIDENCE_DECAY * elapsed_seconds) \div ACTIVE_CONTEXT_TTL)
       ELSE e.confidence

-----------------------------------------------------------------------------
(* ApiResource, Intent *)

\* a URI, and a fragment of one, is the sequence of its separators and segments;
\* "fragment in uri" is then "fragment is a run of uri"
Contains(uri, fragment) ==
    \E i \in 0..(Len(uri) - Len(fragment)) : SubSeq(uri, i + 1, i + Len(fragment)) = fragment

IdPlaceholder == <<"{id}">>

ApiResource(key, uri, required_params) ==
    [key |-> key, uri |-> uri, required_params |-> required_params]

\* API_RESOURCES, in the order of the dict
API_RESOURCES == <<
    ApiResource("area", <<"/", "v4", "/", "areas", "/", "{id}">>, {"id"}),
    ApiResource("areas", <<"/", "v4", "/", "areas", "/">>, {}),
    ApiResource("competition", <<"/", "v4", "/", "competitions", "/", "{id}">>, {"id"}),
    ApiResource("competitions", <<"/", "v4", "/", "competitions", "/">>, {}),
    ApiResource("competition_standings",
                <<"/", "v4", "/", "competitions", "/", "{id}", "/", "standings">>, {"id"}),
    ApiResource("competition_matches",
                <<"/", "v4", "/", "competitions", "/", "{id}", "/", "matches">>, {"id"}),
    ApiResource("competition_teams",
                <<"/", "v4", "/", "competitions", "/", "{id}", "/", "teams">>, {"id"}),
    ApiResource("competition_scorers",
                <<"/", "v4", "/", "competitions", "/", "{id}", "/", "scorers">>, {"id"}),
    ApiResource("team", <<"/", "v4", "/", "teams", "/", "{id}">>, {"id"}),
    ApiResource("teams", <<"/", "v4", "/", "teams", "/">>, {}),
    ApiResource("team_matches",
                <<"/", "v4", "/", "teams", "/", "{id}", "/", "matches", "/">>, {"id"}),
    ApiResource("person", <<"/", "v4", "/", "persons", "/", "{id}">>, {"id"}),
    ApiResource("person_matches",
                <<"/", "v4", "/", "persons", "/", "{id}", "/", "matches">>, {"id"}),
    ApiResource("match", <<"/", "v4", "/", "matches", "/", "{id}">>, {"id"}),
    ApiResource("matches", <<"/", "v4", "/", "matches">>, {}),
    ApiResource("match_head2head",
                <<"/", "v4", "/", "matches", "/", "{id}", "/", "head2head">>, {"id"}) >>

\* intent_to_uri.get(intent_name): <<>> is None
intent_to_uri(intent_name) ==
    CASE intent_name = "get_standings" -> <<"/", "standings">>
      [] intent_name = "get_matches" -> <<"/", "matches">>
      [] intent_name = "get_team" -> <<"/", "teams", "/">>
      [] intent_name = "get_team_matches" -> <<"/", "teams", "/", "{id}", "/", "matches">>
      [] intent_name = "get_competition" -> <<"/", "competitions", "/">>
      [] intent_name = "get_competition_matches" -> <<"/", "competitions", "/", "{id}", "/", "matches">>
      [] intent_name = "get_competition_teams" -> <<"/", "competitions", "/", "{id}", "/", "teams">>
      [] intent_name = "get_competition_scorers" -> <<"/", "competitions", "/", "{id}", "/", "scorers">>
      [] OTHER -> <<>>

matches_intent(resource, intent_name) ==
    LET pattern == intent_to_uri(intent_name)
    IN pattern # <<>> /\ Contains(resource.uri, pattern)

\* for resource in API_RESOURCES.values(): if matches_intent: ...; break
resource_for(intent_name) ==
    LET at == {i \in 1..Len(API_RESOURCES) : matches_intent(API_RESOURCES[i], intent_name)}
    IN IF at = {} THEN None ELSE Some(API_RESOURCES[Least(at)])

\* Intent.api_params: the keys of the dict and their values
NoParams == [keys |-> {}, competition_id |-> NoId, team_id |-> NoId, status |-> "",
             date_from |-> 0, date_to |-> 0]

\* Intent.entities, a dict of slot name -> Entity, is the sequence of its
\* [name, entity] in insertion order
SlotNames(intent_entities) == {intent_entities[i].name : i \in 1..Len(intent_entities)}

\* intent_entities[name] = entity
SetSlot(intent_entities, name, entity) ==
    LET at == {i \in 1..Len(intent_entities) : intent_entities[i].name = name}
    IN IF at = {} THEN Append(intent_entities, [name |-> name, entity |-> entity])
       ELSE [intent_entities EXCEPT ![Least(at)].entity = entity]

\* the body of the loop of Intent.get_api_params, and the body without the
\* branch of the single date
RangesOnly(params, entity, resource) ==
    IF entity.type = TIMEFRAME /\ {"date_from", "date_to"} \subseteq entity.metadata.keys
    THEN [params EXCEPT !.keys = @ \cup {"date_from", "date_to"},
                        !.date_from = entity.metadata.date_from,
                        !.date_to = entity.metadata.date_to]
    ELSE params
ApiParam(params, entity, resource) ==
    LET p1 == IF entity.type = COMPETITION /\ Contains(resource.uri, IdPlaceholder)
              THEN [params EXCEPT !.keys = @ \cup {"competition_id"}, !.competition_id = entity.id]
              ELSE IF entity.type = TEAM /\ Contains(resource.uri, IdPlaceholder)
              THEN [params EXCEPT !.keys = @ \cup {"team_id"}, !.team_id = entity.id]
              ELSE IF entity.type = STATUS
              THEN [params EXCEPT !.keys = @ \cup {"status"}, !.status = entity.value]
              ELSE params
    IN  IF entity.type # TIMEFRAME THEN p1
        ELSE IF "date" \in entity.metadata.keys
        THEN [p1 EXCEPT !.keys = @ \cup {"date_from", "date_to"},
                        !.date_from = entity.metadata.date,
                        !.date_to = entity.metadata.date]
        ELSE IF {"date_from", "date_to"} \subseteq entity.metadata.keys
        THEN [p1 EXCEPT !.keys = @ \cup {"date_from", "date_to"},
                        !.date_from = entity.metadata.date_from,
                        !.date_to = entity.metadata.date_to]
        ELSE p1

RECURSIVE ApiParams(_, _, _)
ApiParams(params, intent_entities, resource) ==
    IF intent_entities = <<>> THEN params
    ELSE ApiParams(ApiParam(params, Head(intent_entities).entity, resource),
                   Tail(intent_entities), resource)

get_api_params(intent_entities, resource) == ApiParams(NoParams, intent_entities, resource)

NoIntent == [name |-> "", confidence |-> 0, entities |-> <<>>, api_resource |-> None,
             api_params |-> NoParams]

-----------------------------------------------------------------------------
(* IntentProcessor *)

INTENT_PATTERNS == <<
    [words |-> {"standing", "table", "position", "rank", "league table"}, intent |-> "get_standings"],
    [words |-> {"match", "matches", "game", "games", "fixture", "fixtures", "schedule",
                "upcoming", "played"}, intent |-> "get_matches"],
    [words |-> {"team", "club", "squad"}, intent |-> "get_team"],
    [words |-> {"player", "squad", "roster", "lineup"}, intent |-> "get_team"],
    [words |-> {"scorer", "goal scorer", "top scorer", "leading scorer", "golden boot"},
     intent |-> "get_competition_scorers"],
    [words |-> {"head to head", "h2h", "versus", "vs"}, intent |-> "get_match_head2head"] >>

\* which of "standings", "standing", "table" is a substring of a word
Substrings(word) ==
    CASE word = "standings" -> {"standings", "standing"}
      [] word = "standing" -> {"standing"}
      [] word = "table" -> {"table"}
      [] word = "league table" -> {"table"}
      [] word = "timetable" -> {"table"}
      [] word = "outstanding" -> {"standing"}
      [] OTHER -> {}

\* needle in message_lower
InMessage(needle, tl) == \E i \in 1..Len(tl) : needle \in Substrings(tl[i])

\* re.search(r'\b(?:w1|w2|...)\b', message_lower)
Searches(words, tl) == \E i \in 1..Len(tl) : tl[i] \in words

HasType(entities, type) == \E i \in 1..Len(entities) : entities[i].type = type

Candidate(intent_name, confidence) == [name |-> intent_name, confidence |-> confidence]

\* INTENT_PATTERNS in order, without the explicit rule
PatternsOnly(tl) ==
    Flatten([r \in 1..Len(INTENT_PATTERNS) |->
               IF Searches(INTENT_PATTERNS[r].words, tl)
               THEN <<Candidate(INTENT_PATTERNS[r].intent, Pct(70))>> ELSE <<>>])

\* the explicit "standings"/"table" rule, then INTENT_PATTERNS in order
lexical_intents(tl) ==
    (IF InMessage("standings", tl) \/ InMessage("table", tl)
     THEN <<Candidate("get_standings", Pct(80))>> ELSE <<>>)
    \o Flatten([r \in 1..Len(INTENT_PATTERNS) |->
                  IF Searches(INTENT_PATTERNS[r].words, tl)
                  THEN <<Candidate(INTENT_PATTERNS[r].intent, Pct(70))>> ELSE <<>>])

\* the inference with the team branch tested before the competition branch
TeamBranchFirst(tl, entities) ==
    IF HasType(entities, TEAM)
    THEN <<Candidate("get_team_matches", Pct(60)), Candidate("get_team", Pct(50))>>
    ELSE IF HasType(entities, COMPETITION)
    THEN IF InMessage("standing", tl) \/ InMessage("table", tl)
         THEN <<Candidate("get_standings", Pct(70))>>
         ELSE <<Candidate("get_competition", Pct(60)), Candidate("get_standings", Pct(50))>>
    ELSE IF HasType(entities, TIMEFRAME) THEN <<Candidate("get_matches", Pct(60))>>
    ELSE <<>>

\* if not matched_intents: infer the intent from the entities
inferred_intents(tl, entities) ==
    IF HasType(entities, COMPETITION)
    THEN IF HasType(entities, TEAM) THEN <<Candidate("get_competition_teams", Pct(60))>>
         ELSE IF InMessage("standing", tl) \/ InMessage("table", tl)
              THEN <<Candidate("get_standings", Pct(70))>>
              ELSE <<Candidate("get_competition", Pct(60)), Candidate("get_standings", Pct(50))>>
    ELSE IF HasType(entities, TEAM)
    THEN <<Candidate("get_team_matches", Pct(60)), Candidate("get_team", Pct(50))>>
    ELSE IF HasType(entities, TIMEFRAME) THEN <<Candidate("get_matches", Pct(60))>>
    ELSE <<>>

\* _detect_intent without the follow-up rule
NoFollowUp(ctx) == <<>>

\* if not matched_intents: a follow-up of the last intent
follow_up_intents(ctx) ==
    LET last_intent == get_last_intent(ctx)
    IN IF last_intent # None THEN <<Candidate(last_intent[1].name, Pct(40))>> ELSE <<>>

matched_intents(tl, entities, ctx) ==
    LET m1 == lexical_intents(tl)
        m2 == IF m1 # <<>> THEN m1 ELSE inferred_intents(tl, entities)
    IN IF m2 # <<>> THEN m2 ELSE follow_up_intents(ctx)

\* sorted(matched_intents, key=confidence)[-1]: of the candidates of the
\* highest confidence the last proposed
LastOfHighest(cands) ==
    LET highest == {i \in 1..Len(cands) : \A j \in 1..Len(cands) :
                      cands[j].confidence <= cands[i].confidence}
    IN cands[CHOOSE i \in highest : \A j \in highest : j <= i]

\* matched_intents.sort(key=confidence, reverse=True); matched_intents[0]
best_intent(cands) ==
    Items(SortDescending([i \in 1..Len(cands) |-> <<cands[i].confidence, cands[i]>>]))[1]

\* the entities of the message, the first of each value of a type, in slots
\* f"{type}_{len(intent_entities)}"
RECURSIVE BindEntities(_, _, _)
BindEntities(entities, added_values, intent_entities) ==
    IF entities = <<>> THEN intent_entities
    ELSE LET e == Head(entities)
         IN IF <<e.type, e.value>> \in added_values
            THEN BindEntities(Tail(entities), added_values, intent_entities)
            ELSE BindEntities(Tail(entities), added_values \cup {<<e.type, e.value>>},
                              Append(intent_entities,
                                     [name |-> e.type \o "_" \o ToString(Len(intent_entities)),
                                      entity |-> e]))

\* "{id}" in uri and "competition" not in intent_entities and "team" not in intent_entities
needs_context(resource, intent_entities) ==
    /\ Contains(resource.uri, IdPlaceholder)
    /\ COMPETITION \notin SlotNames(intent_entities)
    /\ TEAM \notin SlotNames(intent_entities)

StandingsLeftOut == {"get_competition_matches", "get_competition_teams", "get_competition_scorers"}
competition_context_intents ==
    {"get_standings", "get_competition_matches", "get_competition_teams", "get_competition_scorers"}
team_context_intents == {"get_team_matches"}

\* the backfill without the sort: the first stored entity of the type is bound
FirstStored(type, intent_entities, ctx, t) ==
    LET ctx1 == get_entities_by_type(ctx, t)
        list == EntitiesOfType(ctx1, type)
    IN IF list = <<>> THEN [context |-> ctx1, intent_entities |-> intent_entities]
       ELSE [context |-> ctx1,
             intent_entities |-> SetSlot(intent_entities, type \o "_context", list[1])]

\* get_entities_by_type(type); the list, if not empty, is sorted in place by
\* decayed confidence and its first item bound to f"{type}_context"
context_entity(type, intent_entities, ctx, t) ==
    LET ctx1 == get_entities_by_type(ctx, t)
        list == EntitiesOfType(ctx1, type)
        sorted == Items(SortDescending(
                     [i \in 1..Len(list) |-> <<get_entity_confidence(ctx1, list[i], t), list[i]>>]))
    IN IF list = <<>> THEN [context |-> ctx1, intent_entities |-> intent_entities]
       ELSE [context |-> SetEntitiesOfType(ctx1, type, sorted),
             intent_entities |-> SetSlot(intent_entities, type \o "_context", sorted[1])]

add_contextual_entities(intent_name, resource, intent_entities, ctx, t) ==
    IF ~needs_context(resource, intent_entities)
    THEN [context |-> ctx, intent_entities |-> intent_entities]
    ELSE IF intent_name \in competition_context_intents
    THEN context_entity(COMPETITION, intent_entities, ctx, t)
    ELSE IF intent_name \in team_context_intents
    THEN context_entity(TEAM, intent_entities, ctx, t)
    ELSE [context |-> ctx, intent_entities |-> intent_entities]

\* _detect_intent without the confidence adjustment
Unadjusted(confidence, resource, params) == confidence

\* if required_params (after "id" is struck out): intent.confidence *= 0.5
adjusted_confidence(confidence, resource, params) ==
    LET required_params ==
            resource.required_params \
                (IF "competition_id" \in params.keys \/ "team_id" \in params.keys
                 THEN {"id"} ELSE {})
    IN IF required_params # {} THEN confidence \div 2 ELSE confidence

\* _detect_intent: what it returns or that it raised, and the context after it.
\* With no resource for the intent, intent.api_resource.uri raises AttributeError.
detect_intent(tl, entities, ctx, t) ==
    LET cands == matched_intents(tl, entities, ctx)
    IN IF cands = <<>> THEN [kind |-> "none", intent |-> NoIntent, context |-> ctx]
       ELSE
       LET best == best_intent(cands)
           api_resource == resource_for(best.name)
           bound == BindEntities(entities, {}, <<>>)
       IN IF api_resource = None
          THEN [kind |-> "raised", intent |-> NoIntent, context |-> ctx]
          ELSE
          LET resource == api_resource[1]
              filled == add_contextual_entities(best.name, resource, bound, ctx, t)
              params == get_api_params(filled.intent_entities, resource)
          IN [kind |-> "intent",
              intent |-> [name |-> best.name,
                          confidence |-> adjusted_confidence(best.confidence, resource, params),
                          entities |-> filled.intent_entities,
                          api_resource |-> api_resource,
                          api_params |-> params],
              context |-> filled.context]

NoContexts == [u \in {} |-> NewContext(u, 0)]

\* get_or_create_context that starts a new user from another user's context
\* object instead of a new one, in process_message up to the await
ShareContext(ctxs, user_id, message, cache, t) ==
    LET ctxs1 == IF user_id \in DOMAIN ctxs THEN ctxs
                 ELSE IF DOMAIN ctxs = {} THEN Put(ctxs, user_id, NewContext(user_id, t))
                 ELSE Put(ctxs, user_id, ctxs[CHOOSE v \in DOMAIN ctxs : TRUE])
        entities == extract_entities(message, cache, t)
        ctx1 == IF entities # <<>> THEN add_entities(ctxs1[user_id], entities, t)
                ELSE ctxs1[user_id]
    IN [contexts |-> Put(ctxs1, user_id, ctx1), entities |-> entities]

\* process_message up to "await self._detect_intent(...)": the contexts after
\* get_or_create_context and add_entities, and the entities of the message
receive_message(ctxs, user_id, message, cache, t) ==
    LET ctxs1 == IF user_id \in DOMAIN ctxs THEN ctxs
                 ELSE Put(ctxs, user_id, NewContext(user_id, t))
        entities == extract_entities(message, cache, t)
        ctx1 == IF entities # <<>> THEN add_entities(ctxs1[user_id], entities, t)
                ELSE ctxs1[user_id]
    IN [contexts |-> Put(ctxs1, user_id, ctx1), entities |-> entities]

\* process_message from "await self._detect_intent(...)" on
answer_message(ctxs, user_id, message, entities, t) ==
    LET d == detect_intent(text_lower(message), entities, ctxs[user_id], t)
        ctx2 == IF d.kind = "intent"
                THEN add_intent(d.context, d.intent.name, d.intent.confidence,
                                d.intent.entities, t)
                ELSE d.context
    IN [contexts |-> Put(ctxs, user_id, ctx2),
        result |-> [kind |-> d.kind, intent |-> d.intent]]

\* process_message: the contexts after it, and what it returned or that it raised
process_message(ctxs, user_id, message, cache, t) ==
    LET received == receive_message(ctxs, user_id, message, cache, t)
    IN answer_message(received.contexts, user_id, message, received.entities, t)

\* whether "await self._detect_intent(...)" gives the event loop a turn: no,
\* there is no await in _detect_intent, the coroutine runs through
AwaitAlwaysYields == TRUE
DetectIntentSuspends == FALSE

-----------------------------------------------------------------------------
(* IntentProcessor: the state after construction *)

Users == {"u1", "u2"}

\* the messages sent, as sequences of the words and phrases that matter
Texts == {
    <<"Premier League", "standings">>,
    <<"Premier League">>,
    <<"standings">>,
    <<"EPL", "standings", "premier league">>,
    <<"premier league", "epl">>,
    <<"La Liga">>,
    <<"Arsenal", "vs">>,
    <<"matches", "tomorrow">>,
    <<"Arsenal", "standings">>,
    <<"competition">>,
    <<"hello">> }

\* EntityExtractor() as the bot constructs it, and as the tests construct it
NoTeamCache == <<>>
TestTeamCache == <<[name |-> "Arsenal", id |-> 57], [name |-> "Manchester United", id |-> 66]>>

NoResult == [kind |-> "nothing", intent |-> NoIntent]

\* a direct call of a ConversationContext method: the method, the time of the
\* call, the entities of the list or Optional[Entity] it returned (for
\* add_entities, which returns None: of the list it was given), the
\* Optional[intent] it returned, the confidence it returned, and how many
\* stored entities its pruning removed
Returned(op, at, entities, intent, confidence, pruned) ==
    [op |-> op, at |-> at, entities |-> entities, intent |-> intent,
     confidence |-> confidence, pruned |-> pruned]
NoReturn == Returned("", 0, <<>>, None, 0, 0)

TickStep == 1801

-----------------------------------------------------------------------------
(* api.utils.async_retry *)

\* What one invocation of the wrapped function does: it returns, or raises an
\* exception.  retry_after is the attribute of the exception, NoHint when
\* getattr(e, "retry_after", None) is None.  Times are in seconds.
NoHint == -1
Success == [kind |-> "return", retry_after |-> NoHint]
ConnectionError == [kind |-> "APIConnectionError", retry_after |-> NoHint]
RateLimitError == [kind |-> "APIRateLimitError", retry_after |-> 5]
OtherError == [kind |-> "ValueError", retry_after |-> NoHint]

\* the defaults of the decorator's arguments
retry_exceptions == {"APIConnectionError", "APIRateLimitError"}
initial_backoff == 1
backoff_factor == 2

\* func as an AsyncMock with side_effect: the k-th invocation does
\* side_effect[k], and the last element from then on
Invoke(side_effect, k) ==
    IF k < Len(side_effect) THEN side_effect[k] ELSE side_effect[Len(side_effect)]

\* the wrapper: where it is (idle, call, sleep, returned, raised), its
\* arguments, its locals, how often func was invoked, the asyncio.sleep calls
\* it made, and which invocation's exception it raised
NoRetry ==
    [pc |-> "idle", max_retries |-> 0, side_effect |-> <<>>, retries |-> 0, backoff |-> 0,
     wait_time |-> 0, call_count |-> 0, slept |-> <<>>, exception |-> 0]

\* if retries > max_retries in place of the mutant below
AtMaxRetries(retries, max_retries) == retries >= max_retries
Exhausted(retries, max_retries) == retries > max_retries

\* wrapper(): retries = 0, backoff = initial_backoff, and the loop is entered
wrapper(max_retries, side_effect) ==
    [NoRetry EXCEPT !.pc = "call", !.max_retries = max_retries, !.side_effect = side_effect,
                    !.backoff = initial_backoff]

\* one pass of the while loop up to its await: func is awaited, and its
\* result returned or its exception handled
attempt(r) ==
    LET k == r.call_count + 1
        e == Invoke(r.side_effect, k)
        called == [r EXCEPT !.call_count = k]
    IN  IF e.kind = "return" THEN [called EXCEPT !.pc = "returned"]
        ELSE IF e.kind \notin retry_exceptions THEN [called EXCEPT !.pc = "raised", !.exception = k]
        ELSE IF Exhausted(r.retries + 1, r.max_retries)
             THEN [called EXCEPT !.pc = "raised", !.exception = k, !.retries = r.retries + 1]
        ELSE [called EXCEPT !.pc = "sleep", !.retries = r.retries + 1,
                            !.wait_time = IF e.retry_after # NoHint THEN e.retry_after
                                          ELSE r.backoff]

\* asyncio.sleep(wait_time) returns, and backoff *= backoff_factor
after_sleep(r) ==
    [r EXCEPT !.pc = "call", !.slept = Append(r.slept, r.wait_time),
              !.backoff = r.backoff * backoff_factor]

-----------------------------------------------------------------------------
\* no add_team or add_competition call made yet
NoUpsert == [op |-> "", data |-> Nameless, outcome |-> "", repeat |-> FALSE, n |-> 0]

\* no call made yet
InitCalls ==
    /\ turns = 0
    /\ user = "u1"
    /\ text = <<>>
    /\ result = NoResult
    /\ ready = <<>>
    /\ serial = [contexts |-> NoContexts, results |-> <<>>]
    /\ calls = 0
    /\ returned = NoReturn
    /\ appended = <<>>
    /\ added = <<>>
    /\ retry = NoRetry
    /\ upsert = NoUpsert

InitProcessor ==
    /\ contexts = NoContexts
    /\ InitCalls

-----------------------------------------------------------------------------
(* EntityCache: the state after construction *)

FreshFiles ==
    [teams |-> CacheFile(Put(EmptyIndex, "Arsenal", Arsenal),
                         Put(EmptyIndex, IntKey(57), Arsenal), StartTime - 3600),
     comps |-> CacheFile(Put(EmptyIndex, "Premier League", PremierLeague),
                         Put(EmptyIndex, IntKey(2021), PremierLeague), StartTime - 3600)]
StaleFiles ==
    [teams |-> CacheFile(Put(EmptyIndex, "Arsenal", Arsenal),
                         Put(EmptyIndex, IntKey(57), Arsenal), 0),
     comps |-> CacheFile(Put(EmptyIndex, "Premier League", PremierLeague),
                         Put(EmptyIndex, IntKey(2021), PremierLeague), 0)]
NoFiles == [teams |-> AbsentFile, comps |-> AbsentFile]
BrokenFiles == [teams |-> CorruptFile, comps |-> AbsentFile]
InitialDisks == {NoFiles, FreshFiles, StaleFiles, BrokenFiles}

\* logger.error(f"Error loading teams for competition {comp_id}: {e}"): the
\* competitions so logged.  The log is kept only when something reads it.
NoLog == [on |-> FALSE, failed |-> {}]
EmptyLog == [on |-> TRUE, failed |-> {}]
Logged(log, answered, comp_id) ==
    IF log.on /\ ~answered THEN [log EXCEPT !.failed = @ \cup {comp_id}] ELSE log

\* except Exception as e: logger.error(...) in the team loop: the indexes are as
\* they were and the loop goes on
DropTeams(st) == [st EXCEPT !.teams = EmptyIndex, !.teams_by_id = EmptyIndex]
AfterFailedFetch(st) == st

InitEntityCache ==
    /\ teams = EmptyIndex
    /\ teams_by_id = EmptyIndex
    /\ competitions = EmptyIndex
    /\ competitions_by_id = EmptyIndex
    /\ load_event = InitialGate
    /\ football_api \in BOOLEAN
    /\ disk \in InitialDisks
    /\ now = StartTime
    /\ ticks = 0
    /\ ipc = [i \in Inits |-> "idle"]
    /\ iidx = [i \in Inits |-> 0]
    /\ silent = FALSE
    /\ rpc = [r \in Readers |-> "idle"]
    /\ rkey = [r \in Readers |-> NameArg("Arsenal")]
    /\ rres = [r \in Readers |-> None]
    /\ team_cache = NoTeamCache
    /\ InitProcessor

InitCache == InitEntityCache /\ fetch_log = NoLog

\* the same with the error log of the team loop read
InitCacheLogged == InitEntityCache /\ fetch_log = EmptyLog

-----------------------------------------------------------------------------
(* EntityCache: the steps *)

SetIndexes(st) ==
    /\ teams' = st.teams
    /\ teams_by_id' = st.teams_by_id
    /\ competitions' = st.competitions
    /\ competitions_by_id' = st.competitions_by_id

\* the end of _load_cache_from_api: the except clause (if the try block failed)
\* and the finally clause
FinishLoad(i, failed) ==
    /\ load_event' = GateAfterLoad(load_event, failed)
    /\ rpc' = WakeWaiters(load_event', rpc)
    /\ ipc' = [ipc EXCEPT ![i] = Returns(failed)]
    /\ UNCHANGED iidx

\* initialize() up to its first await: _load_cache_from_disk, then, if nothing
\* was loaded and there is a client, load_event.clear() and the first fetch
Initialize(i) ==
    /\ ipc[i] = "idle"
    /\ LET r == LoadCacheFromDisk(CacheState, disk, now)
       IN /\ SetIndexes(r.st)
          /\ IF NeedsApiLoad(r.loaded, football_api)
             THEN /\ load_event' = FALSE
                  /\ ipc' = [ipc EXCEPT ![i] = "comps"]
             ELSE /\ ipc' = [ipc EXCEPT ![i] = "done"]
                  /\ UNCHANGED load_event
    /\ UNCHANGED <<football_api, disk, iidx, silent, rpc, rkey, rres, fetch_log,
                   clockVars, procVars>>

\* get_competitions() returns or raises: the competitions are indexed and saved,
\* and the first team fetch is awaited
CompetitionsReturn(i) ==
    /\ ipc[i] = "comps"
    /\ ~silent
    /\ \E answered \in BOOLEAN, saved \in BOOLEAN :
         LET st == IF answered THEN AddCompetitions(CacheState, RemoteCompetitions)
                   ELSE CacheState
         IN /\ SetIndexes(st)
            /\ IF answered /\ saved
               THEN /\ disk' = [disk EXCEPT !.comps =
                                  CacheFile(st.competitions, st.competitions_by_id, now)]
                    /\ ipc' = [ipc EXCEPT ![i] = "teams"]
                    /\ iidx' = [iidx EXCEPT ![i] = 1]
                    /\ UNCHANGED <<load_event, rpc>>
               ELSE /\ IF answered
                       THEN \E file \in FailedSaves(disk.comps) :
                                disk' = [disk EXCEPT !.comps = file]
                       ELSE disk' = disk
                    /\ FinishLoad(i, TRUE)
    /\ UNCHANGED <<football_api, silent, rkey, rres, fetch_log, clockVars, procVars>>

\* get_competition_teams(comp_id) returns or raises: a failure is logged and the
\* loop goes on; after the last competition the teams are saved
TeamsReturn(i) ==
    /\ ipc[i] = "teams"
    /\ ~silent
    /\ \E answered \in BOOLEAN, saved \in BOOLEAN :
         LET st == IF answered
                   THEN AddTeams(CacheState, RemoteTeams(MajorCompetitions[iidx[i]]))
                   ELSE AfterFailedFetch(CacheState)
         IN /\ SetIndexes(st)
            /\ fetch_log' = Logged(fetch_log, answered, MajorCompetitions[iidx[i]])
            /\ IF iidx[i] < Len(MajorCompetitions)
               THEN /\ iidx' = [iidx EXCEPT ![i] = @ + 1]
                    /\ UNCHANGED <<disk, load_event, rpc, ipc>>
               ELSE /\ IF saved
                       THEN disk' = [disk EXCEPT !.teams =
                                       CacheFile(st.teams, st.teams_by_id, now)]
                       ELSE \E file \in FailedSaves(disk.teams) :
                                disk' = [disk EXCEPT !.teams = file]
                    /\ FinishLoad(i, ~saved)
    /\ UNCHANGED <<football_api, silent, rkey, rres, clockVars, procVars>>

\* get_team(arg) up to its return, or up to its suspension on the gate
GetTeam(r) ==
    /\ rpc[r] = "idle"
    /\ \E arg \in LookupArgs :
         /\ rkey' = [rkey EXCEPT ![r] = arg]
         /\ IF load_event
            THEN /\ rres' = [rres EXCEPT ![r] = GetTeamResult(CacheState, arg)]
                 /\ rpc' = [rpc EXCEPT ![r] = "done"]
            ELSE /\ rpc' = [rpc EXCEPT ![r] = "waiting"]
                 /\ UNCHANGED rres
    /\ UNCHANGED <<teams, teams_by_id, competitions, competitions_by_id, load_event,
                   football_api, disk, ipc, iidx, silent, fetch_log, clockVars, procVars>>

\* a get_team woken by load_event.set() runs on: the lookup
ResumeGetTeam(r) ==
    /\ rpc[r] = "woken"
    /\ rres' = [rres EXCEPT ![r] = GetTeamResult(CacheState, rkey[r])]
    /\ rpc' = [rpc EXCEPT ![r] = "done"]
    /\ UNCHANGED <<teams, teams_by_id, competitions, competitions_by_id, load_event,
                   football_api, disk, ipc, iidx, silent, rkey, fetch_log, clockVars,
                   procVars>>

\* the data source stops answering: from now on none of its calls returns
GoSilent ==
    /\ ~silent
    /\ silent' = TRUE
    /\ UNCHANGED <<teams, teams_by_id, competitions, competitions_by_id, load_event,
                   football_api, disk, ipc, iidx, rpc, rkey, rres, fetch_log, clockVars,
                   procVars>>

\* the cache with a data source every call of which returns or raises
NextCache ==
    \/ \E i \in Inits : Initialize(i)
    \/ \E i \in Inits : CompetitionsReturn(i)
    \/ \E i \in Inits : TeamsReturn(i)
    \/ \E r \in Readers : GetTeam(r)
    \/ \E r \in Readers : ResumeGetTeam(r)

SpecCache == InitCache /\ [][NextCache]_vars

\* the cache with a data source that may stop answering
NextCacheSilent == NextCache \/ GoSilent

SpecCacheSilent == InitCache /\ [][NextCacheSilent]_vars

\* one initialize() call on the cache, with the error log of its team loop read
NextCacheOneLoad ==
    \/ Initialize(1)
    \/ CompetitionsReturn(1)
    \/ TeamsReturn(1)
    \/ \E r \in Readers : GetTeam(r)
    \/ \E r \in Readers : ResumeGetTeam(r)

SpecCacheOneLoad == InitCacheLogged /\ [][NextCacheOneLoad]_vars

-----------------------------------------------------------------------------
(* EntityCache: the claims *)

OneInitializeCompleted ==
    /\ Cardinality({i \in Inits : ipc[i] # "idle"}) = 1
    /\ \A i \in Inits : ipc[i] \in {"idle", "done"}

\* C1: with one initialize() on the cache, every get_team call that has returned,
\* also one issued before initialize completed or began, returned what get_team
\* returns once initialize has completed.
C1_GetTeamReturnsPostInitializationResult ==
    \A r \in Readers :
        (rpc[r] = "done" /\ OneInitializeCompleted)
            => rres[r] = GetTeamResult(CacheState, rkey[r])

C7_AtMostOneLoadInFlight == Cardinality({i \in Inits : InFlight(i)}) <= 1

\* C8: whenever some remote load has begun to fill the indexes and has not
\* finished, the readiness gate is closed.
C8_GateClosedWhileLoading == (\E i \in Inits : ipc[i] = "teams") => ~load_event

\* C9: the step in which a remote load finishes, whether its try block ran to the
\* end or raised, leaves the gate open and resumes every get_team that was
\* suspended on the gate.
C9_GateReopenedAndWaitersReturn ==
    [][\A i \in Inits : (InFlight(i) /\ ipc'[i] = "done") =>
          /\ load_event'
          /\ \A r \in Readers : rpc[r] = "waiting" => rpc'[r] = "woken"]_vars

\* a get_team that waited is woken by a load whose competitions fetch raised
\* (no competition was indexed)
C9_WaiterWokenByFailedLoad ==
    \E r \in Readers, i \in Inits :
        /\ rpc[r] = "woken"
        /\ ipc[i] = "done"
        /\ football_api /\ disk = NoFiles /\ competitions = EmptyIndex
        /\ load_event
        /\ \A j \in Inits \ {i} : ipc[j] = "idle"

\* C10: a load in flight never depends on the data source answering: whenever an
\* initialize() is suspended on a fetch, its next step can be taken (the answer,
\* or else a timeout), so that it finishes and opens the gate.
C10_LoadNeverWaitsForever ==
    \A i \in Inits : InFlight(i) => ENABLED (CompetitionsReturn(i) \/ TeamsReturn(i))

\* the record is in the name index and in the id index
Indexed(rec) ==
    /\ rec.name \in DOMAIN teams /\ teams[rec.name] = rec
    /\ IntKey(rec.id) \in DOMAIN teams_by_id /\ teams_by_id[IntKey(rec.id)] = rec

\* the positions in MajorCompetitions whose team fetch has returned or raised
Fetched(i) ==
    IF ipc[i] = "teams" THEN 1..(iidx[i] - 1)
    ELSE IF ipc[i] = "done" THEN 1..iidx[i]
    ELSE {}

\* C11: during and after the one remote load, every team (with a name and an id)
\* that a team fetch returned is in both team indexes, whichever of the other
\* team fetches failed: the teams of every competition reached by the loop whose
\* fetch is not in the error log.
C11_TeamsOfEveryAnsweredFetchIndexed ==
    \A k \in Fetched(1) :
        MajorCompetitions[k] \notin fetch_log.failed =>
            \A j \in 1..Len(RemoteTeams(MajorCompetitions[k])) :
                LET rec == RemoteTeams(MajorCompetitions[k])[j]
                IN (rec.name # NoName /\ rec.id # NoId) => Indexed(rec)

\* the load has finished; the fetches of the first and the third competition
\* failed, the teams of the second are indexed
C11_LoadedAroundTwoFailures ==
    /\ ipc[1] = "done"
    /\ iidx[1] = Len(MajorCompetitions)
    /\ fetch_log.failed = {2021, 2002}
    /\ Indexed(Barcelona)
    /\ "Arsenal" \notin DOMAIN teams

\* C12: no initialize() call ends by raising: whatever the storage and the data
\* source did, a call that was made is suspended on a fetch or has returned.
C12_InitializeNeverRaises ==
    \A i \in Inits : ipc[i] \in {"idle", "comps", "teams", "done"}

\* initialize() has returned after teams.json could not be read, a team fetch
\* raised and teams.json could not be written
C12_ReturnedAfterLoadFetchAndSaveErrors ==
    /\ ipc[1] = "done"
    /\ iidx[1] = Len(MajorCompetitions)
    /\ disk.teams = CorruptFile
    /\ disk.comps.kind = "ok"
    /\ fetch_log.failed # {}

-----------------------------------------------------------------------------
(* IntentProcessor: the steps *)

\* an EntityCache nothing is done with
InitUnusedCache ==
    /\ teams = EmptyIndex
    /\ teams_by_id = EmptyIndex
    /\ competitions = EmptyIndex
    /\ competitions_by_id = EmptyIndex
    /\ load_event = InitialGate
    /\ football_api = FALSE
    /\ disk = NoFiles
    /\ ticks = 0
    /\ ipc = [i \in Inits |-> "idle"]
    /\ iidx = [i \in Inits |-> 0]
    /\ silent = FALSE
    /\ rpc = [r \in Readers |-> "idle"]
    /\ rkey = [r \in Readers |-> NameArg("Arsenal")]
    /\ rres = [r \in Readers |-> None]
    /\ fetch_log = NoLog

InitIdleCache == InitUnusedCache /\ now = StartTime

Init ==
    /\ InitIdleCache
    /\ team_cache \in {NoTeamCache, TestTeamCache}
    /\ InitProcessor

\* one call of process_message: no await in it suspends, it is one step
ProcessMessage(u, txt) ==
    /\ turns < MaxTurns
    /\ \E out \in {process_message(contexts, u, txt, team_cache, now)} :
          /\ contexts' = out.contexts
          /\ result' = out.result
    /\ turns' = turns + 1
    /\ user' = u
    /\ text' = txt
    /\ UNCHANGED <<team_cache, ready, serial, callVars, cacheVars, clockVars>>

\* time passes between two messages
Tick ==
    /\ ticks < MaxTicks
    /\ 0 < turns /\ turns < MaxTurns
    /\ now' = now + TickStep
    /\ ticks' = ticks + 1
    /\ UNCHANGED <<cacheVars, procVars>>

Next ==
    \/ \E u \in Users, txt \in Texts : ProcessMessage(u, txt)
    \/ Tick

Spec == Init /\ [][Next]_vars

-----------------------------------------------------------------------------
(* IntentProcessor: calls as tasks of the event loop *)

\* a task of the loop: the n-th call made, made when `at` calls had returned
Task(n, at, u, txt) ==
    [n |-> n, at |-> at, user |-> u, text |-> txt, stage |-> "call", entities |-> <<>>]

\* process_message(u, txt) is called: a task is put at the end of the ready
\* queue of the loop
Arrive(u, txt) ==
    /\ turns + Len(ready) < MaxTurns
    /\ ready' = Append(ready, Task(turns + Len(ready) + 1, turns, u, txt))
    /\ \E out \in {process_message(serial.contexts, u, txt, team_cache, now)} :
          serial' = [contexts |-> out.contexts, results |-> Append(serial.results, out.result)]
    /\ UNCHANGED <<team_cache, contexts, turns, user, text, result, callVars, cacheVars,
                   clockVars>>

\* the loop runs the first ready task until it suspends or returns: a task
\* called runs up to "await self._detect_intent(...)", where it is put back in
\* the queue if the await suspends; it then runs to its return (or raise)
RunTask ==
    /\ ready # <<>>
    /\ \E received \in {IF Head(ready).stage = "call"
                         THEN receive_message(contexts, Head(ready).user, Head(ready).text,
                                              team_cache, now)
                         ELSE [contexts |-> contexts, entities |-> Head(ready).entities]} :
          IF Head(ready).stage = "call" /\ DetectIntentSuspends
          THEN /\ contexts' = received.contexts
               /\ ready' = Append(Tail(ready), [Head(ready) EXCEPT
                                                  !.stage = "detect",
                                                  !.entities = received.entities])
               /\ UNCHANGED <<turns, user, text, result>>
          ELSE \E out \in {answer_message(received.contexts, Head(ready).user,
                                            Head(ready).text, received.entities, now)} :
                  /\ contexts' = out.contexts
                  /\ result' = out.result
                  /\ turns' = turns + 1
                  /\ user' = Head(ready).user
                  /\ text' = Head(ready).text
                  /\ ready' = Tail(ready)
    /\ UNCHANGED <<team_cache, serial, callVars, cacheVars, clockVars>>

NextTasks ==
    \/ \E u \in Users, txt \in Texts : Arrive(u, txt)
    \/ RunTask

SpecTasks == Init /\ [][NextTasks]_vars

-----------------------------------------------------------------------------
(* ConversationContext: its methods called directly *)

\* how many calls that write to the context a behaviour makes, how many
\* intents it records
MaxCalls == 2
MaxIntents == 6

\* the user whose context is called
Subject == "u1"

\* the ConversationContext the calls are made on
ContextOf(ctxs, user_id, t) ==
    IF user_id \in DOMAIN ctxs THEN ctxs[user_id] ELSE NewContext(user_id, t)

\* lists add_entities is called with: a competition; the same competition in
\* another case and at a lower confidence, with a team; a competition twice
\* in one list, the second time in another case and at a higher confidence
EntityLists == {
    <<Entity(COMPETITION, "Premier League", 2021, Pct(90), 0, 1, NoMetadata)>>,
    <<Entity(COMPETITION, "premier league", 2021, Pct(70), 0, 1, NoMetadata),
      Entity(TEAM, "Arsenal", 57, Pct(95), 1, 2, TeamMetadata)>>,
    <<Entity(COMPETITION, "La Liga", 2014, Pct(90), 0, 1, NoMetadata),
      Entity(COMPETITION, "LA LIGA", 2014, Pct(100), 1, 2, NoMetadata)>> }

\* what add_intent is called with
IntentCalls == {Candidate("get_standings", Pct(80)), Candidate("get_matches", Pct(35))}

\* the messages sent between the direct calls
ContextTexts == {<<"standings">>, <<"La Liga">>}

EntityReads == {"get_entities_by_type", "get_entity_by_value", "get_most_recent_entities"}

\* how many entities a context stores
Stored(ctx) == Len(Flatten([i \in 1..Len(ctx.entities) |-> ctx.entities[i].items]))

\* context.add_entities(es)
AddEntitiesCall(es) ==
    /\ calls + turns < MaxCalls
    /\ contexts' = Put(contexts, Subject,
                       add_entities(ContextOf(contexts, Subject, now), es, now))
    /\ calls' = calls + 1
    /\ returned' = Returned("add_entities", now, es, None, 0, 0)
    /\ added' = Append(added, es)
    /\ UNCHANGED <<team_cache, turns, user, text, result, ready, serial, appended, retry, upsert,
                   cacheVars, clockVars>>

\* context.add_intent(name, confidence, {})
AddIntentCall(c) ==
    /\ Len(appended) < MaxIntents
    /\ contexts' = Put(contexts, Subject,
                       add_intent(ContextOf(contexts, Subject, now), c.name,
                                  c.confidence, <<>>, now))
    /\ appended' = Append(appended, [name |-> c.name, confidence |-> c.confidence,
                                     entities |-> <<>>, timestamp |-> now])
    /\ calls' = calls + 1
    /\ returned' = Returned("add_intent", now, <<>>, None, 0, 0)
    /\ UNCHANGED <<team_cache, turns, user, text, result, ready, serial, added, retry, upsert,
                   cacheVars, clockVars>>

\* a read of the context: the context after it, and what it returned
Read(ctx, op, entities, intent, confidence) ==
    /\ contexts' = Put(contexts, Subject, ctx)
    /\ returned' = Returned(op, now, entities, intent, confidence,
                            Stored(ContextOf(contexts, Subject, now)) - Stored(ctx))
    /\ UNCHANGED <<team_cache, turns, user, text, result, ready, serial, calls,
                   appended, added, retry, upsert, cacheVars, clockVars>>

\* context.get_entities_by_type(type)
GetEntitiesByType(type) ==
    LET ctx == get_entities_by_type(ContextOf(contexts, Subject, now), now)
    IN Read(ctx, "get_entities_by_type", EntitiesOfType(ctx, type), None, 0)

\* context.get_entity_by_value(type, value)
GetEntityByValue(type, value) ==
    LET ctx == ContextOf(contexts, Subject, now)
    IN Read(get_entities_by_type(ctx, now), "get_entity_by_value",
            get_entity_by_value(ctx, type, value, now), None, 0)

\* context.get_most_recent_entities(limit)
GetMostRecentEntities(limit) ==
    LET ctx == ContextOf(contexts, Subject, now)
    IN Read(clean_expired_entities(ctx, now), "get_most_recent_entities",
            get_most_recent_entities(ctx, limit, now), None, 0)

\* context.get_last_intent()
GetLastIntent ==
    LET ctx == ContextOf(contexts, Subject, now)
    IN Read(ctx, "get_last_intent", <<>>, get_last_intent(ctx), 0)

\* time passes between two calls
Elapse ==
    /\ ticks < MaxTicks
    /\ 0 < calls + turns
    /\ now' = now + TickStep
    /\ ticks' = ticks + 1
    /\ UNCHANGED <<cacheVars, procVars>>

\* the limit get_most_recent_entities is called with
RecentLimit == 2

NextContext ==
    \/ \E es \in EntityLists : AddEntitiesCall(es)
    \/ \E txt \in ContextTexts : calls + turns < MaxCalls /\ ProcessMessage(Subject, txt)
    \/ GetEntitiesByType(COMPETITION)
    \/ GetEntityByValue(COMPETITION, "PREMIER LEAGUE")
    \/ GetMostRecentEntities(RecentLimit)
    \/ Elapse

SpecContext == Init /\ [][NextContext]_vars

NextIntents ==
    \/ \E c \in IntentCalls : AddIntentCall(c)
    \/ GetEntitiesByType(COMPETITION)
    \/ GetLastIntent
    \/ Elapse

SpecIntents == Init /\ [][NextIntents]_vars

-----------------------------------------------------------------------------
(* IntentProcessor: the claims *)

\* the entities extract_entities finds in the last message
TurnEntities == extract_entities(text, team_cache, now)

\* the slots of the returned Intent that hold an entity of a type
SlotsOfType(intent, type) ==
    SelectSeq(intent.entities, LAMBDA s : s.entity.type = type)

ContextSlots == {COMPETITION \o "_context", TEAM \o "_context"}

\* the competitions a context holds that were last mentioned within HISTORY_TTL
RememberedCompetitions(ctx, t) ==
    SelectSeq(EntitiesOfType(ctx, COMPETITION), LAMBDA e : is_entity_active(ctx, e, t))

\* C2: process_message never raises: every call returns none or an Intent.
C2_ProcessMessageNeverRaises == result.kind # "raised"

\* C3: a process_message call of a user whose context holds exactly one
\* competition C mentioned within the history TTL, with a text that contains
\* "standings" and names no competition and no team, returns get_standings with
\* exactly one Competition entity, C in the slot competition_context, and
\* api_params.competition_id = C.id.
C3_StandingsTakeCompetitionFromContext ==
    [][(/\ turns' = turns + 1
        /\ user' \in DOMAIN contexts
        /\ Len(RememberedCompetitions(contexts[user'], now)) = 1
        /\ InMessage("standings", text_lower(text'))
        /\ ~HasType(extract_entities(text', team_cache, now), COMPETITION)
        /\ ~HasType(extract_entities(text', team_cache, now), TEAM))
       => LET C == RememberedCompetitions(contexts[user'], now)[1]
              held == SlotsOfType(result'.intent, COMPETITION)
          IN /\ result'.kind = "intent"
             /\ result'.intent.name = "get_standings"
             /\ held = <<[name |-> "competition_context", entity |-> C]>>
             /\ "competition_id" \in result'.intent.api_params.keys
             /\ result'.intent.api_params.competition_id = C.id]_vars

\* the second turn of a user asks for the standings, naming no competition, ten
\* minutes or more after the first named the Premier League
C3_StandingsAfterPremierLeague ==
    /\ result.kind = "intent"
    /\ InMessage("standings", text_lower(text))
    /\ ~HasType(TurnEntities, COMPETITION)
    /\ ~HasType(TurnEntities, TEAM)
    /\ \E i \in 1..Len(result.intent.entities) :
          /\ result.intent.entities[i].name = "competition_context"
          /\ result.intent.entities[i].entity.value = "Premier League"
          /\ now - timestamp_of(contexts[user], result.intent.entities[i].entity)
                > ACTIVE_CONTEXT_TTL

\* C4: the Intent has a slot filled from context (competition_context or
\* team_context) only if its resource needs {id} and the message itself names
\* neither a competition nor a team.
C4_ContextSlotOnlyWhenTurnNamesNone ==
    (/\ result.kind = "intent"
     /\ SlotNames(result.intent.entities) \cap ContextSlots # {})
    => /\ Contains(result.intent.api_resource[1].uri, IdPlaceholder)
       /\ ~HasType(TurnEntities, COMPETITION)
       /\ ~HasType(TurnEntities, TEAM)

\* C5: the Intent returned for a message that mentions the same competition more
\* than once holds exactly one Competition entity.
C5_OneCompetitionForRepeatedMention ==
    (/\ result.kind = "intent"
     /\ \E i, j \in 1..Len(TurnEntities) :
           /\ i < j
           /\ TurnEntities[i].type = COMPETITION
           /\ TurnEntities[j].type = COMPETITION
           /\ TurnEntities[i].value = TurnEntities[j].value)
    => Len(SlotsOfType(result.intent, COMPETITION)) = 1

\* C13: calls made while earlier calls have not run give what the same calls
\* give when each is run to its end on arrival: the k-th call to return returns
\* what the k-th call made returns then, and once no call is left to run the
\* contexts are the same.
C13_CallsTakeEffectInArrivalOrder ==
    /\ turns >= 1 => result = serial.results[turns]
    /\ ready = <<>> => contexts = serial.contexts

\* the first call has returned; the next call of the same user, made before
\* the first had run, is still to run
C13_SecondCallMadeBeforeFirstRan ==
    /\ turns = 1
    /\ Len(ready) >= 1
    /\ ready[1].at = 0
    /\ ready[1].user = user
    /\ contexts # serial.contexts

\* the last message matched no pattern and named no entity an intent is
\* inferred from: what it returned is a follow-up of the last intent
FollowUpTurn ==
    /\ lexical_intents(text_lower(text)) = <<>>
    /\ inferred_intents(text_lower(text), TurnEntities) = <<>>

\* C14: an intent recorded more than HISTORY_TTL seconds before a call is not
\* re-proposed by the follow-up inference of that call: when a follow-up turn
\* returns an Intent, the intent it repeats, the one recorded just before the
\* one it recorded itself, is at most HISTORY_TTL seconds older.
C14_ExpiredIntentNeverReproposed ==
    (turns >= 1 /\ result.kind = "intent" /\ FollowUpTurn) =>
        LET recent == contexts[user].recent_intents
        IN /\ Len(recent) >= 2
           /\ recent[Len(recent)].timestamp - recent[Len(recent) - 1].timestamp
                 <= HISTORY_TTL

-----------------------------------------------------------------------------
(* ConversationContext: the claims *)

\* the context of the user the direct calls are made for
SubjectContext == ContextOf(contexts, Subject, now)

\* C15: get_entities_by_type, get_entity_by_value and get_most_recent_entities
\* return no entity whose stored timestamp is more than HISTORY_TTL seconds
\* before the call, and no entity process_message binds to a *_context slot
\* is older than that at the time of the call.
C15_ReadsReturnNoExpiredEntity ==
    [][/\ (returned' # returned /\ returned'.op \in EntityReads) =>
             \A i \in 1..Len(returned'.entities) :
                 now - timestamp_of(contexts'[Subject], returned'.entities[i])
                     <= HISTORY_TTL
       /\ (turns' = turns + 1 /\ result'.kind = "intent") =>
             \A i \in 1..Len(result'.intent.entities) :
                 result'.intent.entities[i].name \in ContextSlots =>
                     now - timestamp_of(contexts'[user'],
                                        result'.intent.entities[i].entity)
                         <= HISTORY_TTL]_vars

\* a read has just pruned an entity last mentioned 3602 s before and returned
\* the one mentioned 1801 s before
C15_ReadDroppedTheExpiredEntity ==
    /\ returned.op \in EntityReads
    /\ returned.at = now
    /\ returned.pruned >= 1
    /\ Len(returned.entities) = 1
    /\ now - timestamp_of(SubjectContext, returned.entities[1]) = TickStep

\* the entities a context stores, of all types
AllStored(ctx) == Flatten([i \in 1..Len(ctx.entities) |-> ctx.entities[i].items])

\* two entities add_entities takes for the same one
SameEntity(a, b) == a.type = b.type /\ Lower(a.value) = Lower(b.value) /\ a.id = b.id

\* the greatest of a non-empty set of numbers
Greatest(S) == CHOOSE x \in S : \A y \in S : y <= x

\* C16: add_entities stores one entity per type, value (case ignored) and id:
\* a call adds to the stored entities of a type only the given entities that
\* match no stored entity and no earlier entity of the list; after the call
\* each given entity is stored once, with the greatest confidence among the
\* stored entity it matched and the given entities that match it, and with the
\* time of the call as its timestamp.
C16_MergeIsIdempotent ==
    [][(calls' = calls + 1 /\ returned'.op = "add_entities") =>
          LET before == AllStored(SubjectContext)
              after == AllStored(contexts'[Subject])
              given == returned'.entities
              fresh == {i \in 1..Len(given) :
                          /\ \A j \in 1..Len(before) : ~SameEntity(before[j], given[i])
                          /\ \A j \in 1..(i - 1) : ~SameEntity(given[j], given[i])}
          IN /\ \A type \in {COMPETITION, TEAM} :
                   Len(EntitiesOfType(contexts'[Subject], type))
                     = Len(EntitiesOfType(SubjectContext, type))
                       + Cardinality({i \in fresh : given[i].type = type})
             /\ \A i \in 1..Len(given) :
                   LET stored == {j \in 1..Len(after) : SameEntity(after[j], given[i])}
                       confidences ==
                           {before[j].confidence : j \in {k \in 1..Len(before) :
                                                    SameEntity(before[k], given[i])}}
                           \cup {given[j].confidence : j \in {k \in 1..Len(given) :
                                                    SameEntity(given[k], given[i])}}
                   IN /\ Cardinality(stored) = 1
                      /\ \A j \in stored :
                            /\ after[j].confidence = Greatest(confidences)
                            /\ timestamp_of(contexts'[Subject], after[j]) = now]_vars

\* "premier league" at 0.7 was added 1801 s or more after "Premier League" at
\* 0.9: one competition is stored, at 0.9, with the time of the second call
C16_SecondMentionMerged ==
    /\ returned.op = "add_entities"
    /\ returned.at = now
    /\ now > StartTime
    /\ Len(returned.entities) = 2
    /\ returned.entities[1].confidence = Pct(70)
    /\ Len(EntitiesOfType(SubjectContext, COMPETITION)) = 1
    /\ EntitiesOfType(SubjectContext, COMPETITION)[1].value = "premier league"
    /\ EntitiesOfType(SubjectContext, COMPETITION)[1].confidence = Pct(90)
    /\ timestamp_of(SubjectContext, EntitiesOfType(SubjectContext, COMPETITION)[1]) = now

\* C17: in every state of every ConversationContext, each stored entity has
\* an entry in entity_timestamps under its key.
C17_EveryStoredEntityHasTimestamp ==
    \A u \in DOMAIN contexts :
        \A i \in 1..Len(AllStored(contexts[u])) :
            entity_id(AllStored(contexts[u])[i]) \in DOMAIN contexts[u].entity_timestamps

\* a pruning read has removed an expired entity and its timestamp, and the
\* entity that stays was merged under a second key, the first key being left
\* in entity_timestamps
C17_StoredUnderItsLatestKey ==
    /\ returned.op \in EntityReads
    /\ returned.pruned >= 1
    /\ Stored(SubjectContext) >= 1
    /\ Cardinality(DOMAIN SubjectContext.entity_timestamps) > Stored(SubjectContext)

\* the least of two numbers
Min(a, b) == IF a <= b THEN a ELSE b

\* C18: recent_intents holds at most 5 intents: the last ones add_intent was
\* called with, in call order, newest last, whatever their confidence; an
\* intent of the last 5 that is missing was recorded more than HISTORY_TTL
\* seconds ago (and pruned); get_last_intent returns the last stored intent,
\* none if none is stored.
C18_RecentIntentsAreTheLastFiveAppended ==
    LET recent == SubjectContext.recent_intents
        n == Len(appended)
        k == Len(recent)
    IN /\ k <= 5
       /\ k <= n
       /\ recent = SubSeq(appended, n - k + 1, n)
       /\ k < Min(5, n) => now - appended[n - k].timestamp > HISTORY_TTL
       /\ (returned.op = "get_last_intent" /\ returned.at = now) =>
             returned.intent = IF k = 0 THEN None ELSE Some(appended[n])

\* a sixth intent was recorded, at a lower confidence than the one that was
\* dropped, and get_last_intent has returned it
C18_SixthIntentPushedOutTheFirst ==
    /\ Len(appended) = 6
    /\ Len(SubjectContext.recent_intents) = 5
    /\ appended[1].confidence > appended[6].confidence
    /\ returned.op = "get_last_intent"
    /\ returned.intent = Some(appended[6])

-----------------------------------------------------------------------------
(* ConversationContext.get_entity_confidence *)

\* how many times the clock is advanced between the mention and the reads
MaxWaits == 4

\* the stored confidences the function is read for
Confidences == {0, Pct(5), Pct(50), Pct(90), Pct(100)}

\* the seconds that pass between two reads
Waits == {1, 599, 1800, 3000}

\* the entity the context stores
Mentioned == AllStored(SubjectContext)[1]

\* a context that has just stored one entity, of any of the confidences
InitConfidence ==
    /\ InitIdleCache
    /\ team_cache = NoTeamCache
    /\ InitCalls
    /\ \E c \in Confidences :
          contexts = Put(NoContexts, Subject,
                         add_entities(NewContext(Subject, StartTime),
                                      <<Entity(TEAM, "Arsenal", 57, c, 0, 1, TeamMetadata)>>,
                                      StartTime))

\* time passes
Wait(d) ==
    /\ ticks < MaxWaits
    /\ now' = now + d
    /\ ticks' = ticks + 1
    /\ UNCHANGED <<cacheVars, procVars>>

\* context.get_entity_confidence(entity)
GetEntityConfidence ==
    Read(SubjectContext, "get_entity_confidence", <<Mentioned>>, None,
         get_entity_confidence(SubjectContext, Mentioned, now))

NextConfidence ==
    \/ \E d \in Waits : Wait(d)
    \/ GetEntityConfidence

SpecConfidence == InitConfidence /\ [][NextConfidence]_vars

\* the seconds since the entity was mentioned
Elapsed == now - timestamp_of(SubjectContext, Mentioned)

\* C19: get_entity_confidence returns the stored confidence c while at most
\* ACTIVE_CONTEXT_TTL seconds have passed since the mention, and
\* max(0, c - 0.1 * elapsed / ACTIVE_CONTEXT_TTL) after that; it lies in
\* [0, c] and a later read never returns more than an earlier one.
C19_ConfidenceDecaysAfterActiveWindow ==
    [][(returned'.op = "get_entity_confidence" /\ returned'.at = now') =>
          LET c == Mentioned'.confidence
              got == returned'.confidence
          IN /\ Elapsed' <= ACTIVE_CONTEXT_TTL => got = c
             /\ Elapsed' > ACTIVE_CONTEXT_TTL =>
                   IF 10 * ACTIVE_CONTEXT_TTL * c <= Unit * Elapsed'
                   THEN got = 0
                   ELSE 10 * ACTIVE_CONTEXT_TTL * (c - got) = Unit * Elapsed'
             /\ 0 <= got /\ got <= c
             /\ returned.op = "get_entity_confidence" => got <= returned.confidence]_vars

\* 601 s after the mention a stored confidence of 0.9 has been read as
\* 0.9 - 0.1 * 601 / 600
C19_DecayedJustAfterTheWindow ==
    /\ returned.op = "get_entity_confidence"
    /\ returned.at = now
    /\ Elapsed = ACTIVE_CONTEXT_TTL + 1
    /\ Mentioned.confidence = Pct(90)
    /\ returned.confidence = Pct(90) - (ACTIVE_CONTEXT_TTL + 1)

-----------------------------------------------------------------------------
(* IntentProcessor: the first message of a user *)

\* the ids of the known competitions a message names
NamedCompetitions(txt) ==
    {e.id : e \in {c \in Range(extract_competitions(text_lower(txt))) : c.id # NoId}}

\* C20: the first message of a user that contains "standings" and names one
\* known competition returns an Intent get_standings of confidence at least
\* 0.8 whose api_params.competition_id is the id of that competition.
C20_FirstStandingsMessageNamesCompetition ==
    [][(/\ turns' = turns + 1
        /\ user' \notin DOMAIN contexts
        /\ InMessage("standings", text_lower(text'))
        /\ Cardinality(NamedCompetitions(text')) = 1) =>
          /\ result'.kind = "intent"
          /\ result'.intent.name = "get_standings"
          /\ result'.intent.confidence >= Pct(80)
          /\ "competition_id" \in result'.intent.api_params.keys
          /\ {result'.intent.api_params.competition_id} = NamedCompetitions(text')]_vars

\* the first call made was "Premier League standings" and returned
\* get_standings at 0.8 for competition 2021
C20_PremierLeagueStandingsFirst ==
    /\ turns = 1
    /\ text = <<"Premier League", "standings">>
    /\ result.kind = "intent"
    /\ result.intent.name = "get_standings"
    /\ result.intent.confidence = Pct(80)
    /\ result.intent.api_params.competition_id = 2021

-----------------------------------------------------------------------------
(* The days timeframes resolve to *)

\* how many consecutive days the first message is sent on
MaxDays == 7

\* the clock at the first message: noon of a day of the week that starts on
\* the day of StartTime, a Saturday
Noons == {(today(StartTime) + k) * SecondsPerDay + SecondsPerDay \div 2 : k \in 0..(MaxDays - 1)}

\* messages that name timeframes
DateTexts == {
    <<"matches", "tomorrow">>,
    <<"games", "today">>,
    <<"yesterday">>,
    <<"matches", "this weekend">>,
    <<"this week">>,
    <<"fixtures", "next week">>,
    <<"next weekend">> }

InitDates ==
    /\ InitUnusedCache
    /\ now \in Noons
    /\ team_cache = NoTeamCache
    /\ InitProcessor

NextDates == \E txt \in DateTexts : ProcessMessage(Subject, txt)

SpecDates == InitDates /\ [][NextDates]_vars

\* the row of TIMEFRAME_PATTERNS of a timeframe
TimeframeRow(name) ==
    TIMEFRAME_PATTERNS[CHOOSE r \in 1..Len(TIMEFRAME_PATTERNS) : TIMEFRAME_PATTERNS[r].name = name]

\* C21: a returned Intent that binds one Timeframe has api_params.date_from
\* and date_to both equal to the day of a single-day timeframe (today,
\* tomorrow, yesterday: today plus 0, 1, -1), and equal to the date_from and
\* date_to of a range timeframe; "matches tomorrow" returns get_matches.
C21_TimeframeSetsDateParams ==
    [][(/\ turns' = turns + 1
        /\ result'.kind = "intent"
        /\ Len(SlotsOfType(result'.intent, TIMEFRAME)) = 1) =>
          LET e == SlotsOfType(result'.intent, TIMEFRAME)[1].entity
              params == result'.intent.api_params
              row == TimeframeRow(e.value)
          IN /\ {"date_from", "date_to"} \subseteq params.keys
             /\ row.has_offset =>
                   /\ params.date_from = today(now) + row.days_offset
                   /\ params.date_to = params.date_from
             /\ ~row.has_offset =>
                   /\ {"date_from", "date_to"} \subseteq e.metadata.keys
                   /\ params.date_from = e.metadata.date_from
                   /\ params.date_to = e.metadata.date_to
                   /\ params.date_from < params.date_to
             /\ text' = <<"matches", "tomorrow">> => result'.intent.name = "get_matches"]_vars

\* "matches tomorrow" has returned get_matches for the day after today, after
\* a message with a range timeframe
C21_MatchesTomorrow ==
    /\ turns = 2
    /\ text = <<"matches", "tomorrow">>
    /\ result.kind = "intent"
    /\ result.intent.name = "get_matches"
    /\ result.intent.api_params.date_from = today(now) + 1
    /\ result.intent.api_params.date_to = today(now) + 1
    /\ Len(contexts[Subject].recent_intents) = 2
    /\ contexts[Subject].recent_intents[1].entities # <<>>
    /\ contexts[Subject].recent_intents[1].entities[1].entity.value = "next_week"
-----------------------------------------------------------------------------
(* EntityExtractor.extract_entities called directly *)

\* texts with weekends, and with one or several competition synonyms
ExtractTexts == {
    <<"this weekend">>,
    <<"matches", "upcoming weekend">>,
    <<"next weekend">>,
    <<"EPL">>,
    <<"Premier League", "standings">>,
    <<"english premier league">>,
    <<"la liga", "table">>,
    <<"EPL", "standings", "Premier League">>,
    <<"Premier League", "La Liga">>,
    <<"Arsenal", "tomorrow">> }

InitExtract ==
    /\ InitUnusedCache
    /\ now \in Noons
    /\ team_cache \in {NoTeamCache, TestTeamCache}
    /\ InitProcessor

\* extract_entities(text): the list it returns
Extract(txt) ==
    /\ text' = txt
    /\ returned' = Returned("extract_entities", now, extract_entities(txt, team_cache, now), None, 0, 0)
    /\ UNCHANGED <<team_cache, contexts, turns, user, result, ready, serial, calls, appended,
                   added, retry, upsert,
                   cacheVars, clockVars>>

NextExtract == \E txt \in ExtractTexts : Extract(txt)

SpecExtract == InitExtract /\ [][NextExtract]_vars

\* the entities of a type and value that extract_entities returned
Extracted(type, value) ==
    IF returned.op = "extract_entities"
    THEN {returned.entities[i] : i \in {j \in 1..Len(returned.entities) :
             /\ returned.entities[j].type = type
             /\ returned.entities[j].value = value}}
    ELSE {}

\* Saturdays as day numbers, without date.weekday(): 1970-01-03 was a Saturday
IsSaturday(d) == d % 7 = 2

\* C22: "next weekend" resolves, whatever weekday today is, to a Saturday
\* (date_from) at least 7 days after today and the Sunday after it (date_to).
C22_NextWeekendIsAWeekAhead ==
    \A e \in Extracted(TIMEFRAME, "next_weekend") :
        /\ {"date_from", "date_to"} \subseteq e.metadata.keys
        /\ IsSaturday(e.metadata.date_from)
        /\ e.metadata.date_from >= today(returned.at) + 7
        /\ e.metadata.date_to = e.metadata.date_from + 1
\* C23: "this weekend" resolves, whatever weekday today is, to a Saturday
\* (date_from) 0 to 6 days after today, today itself on a Saturday, and the
\* Sunday after it (date_to).
C23_ThisWeekendIsTheComingSaturday ==
    \A e \in Extracted(TIMEFRAME, "weekend") :
        /\ {"date_from", "date_to"} \subseteq e.metadata.keys
        /\ IsSaturday(e.metadata.date_from)
        /\ e.metadata.date_from - today(returned.at) \in 0..6
        /\ IsSaturday(today(returned.at)) => e.metadata.date_from = today(returned.at)
        /\ e.metadata.date_to = e.metadata.date_from + 1

\* "this weekend" was resolved on a Sunday, to the Saturday six days later
C23_ThisWeekendOnASunday ==
    /\ text = <<"this weekend">>
    /\ IsSaturday(today(returned.at) - 1)
    /\ \E e \in Extracted(TIMEFRAME, "weekend") :
          e.metadata.date_from = today(returned.at) + 6
\* the Competition entities that extract_entities returned, in their order
ExtractedCompetitions ==
    IF returned.op = "extract_entities"
    THEN SelectSeq(returned.entities, LAMBDA e : e.type = COMPETITION)
    ELSE <<>>

\* where the text has a synonym of a competition with an id, and the rows of
\* COMPETITION_PATTERNS with that synonym
SynonymRows(word) ==
    {r \in 1..Len(COMPETITION_PATTERNS) :
        COMPETITION_PATTERNS[r].id # NoId /\ Lower(word) \in COMPETITION_PATTERNS[r].words}
SynonymPositions == {i \in 1..Len(text) : SynonymRows(text[i]) # {}}

-----------------------------------------------------------------------------
(* async_retry: calls of a wrapped function *)

MaxRetries == 2
MaxEffects == 3

\* what func does on its successive invocations
SideEffects ==
    UNION {[1..n -> {Success, ConnectionError, RateLimitError, OtherError}] : n \in 1..MaxEffects}

\* the wrapped function is called
CallWrapper(max_retries, side_effect) ==
    /\ retry.pc \in {"idle", "returned", "raised"}
    /\ retry' = wrapper(max_retries, side_effect)
    /\ UNCHANGED <<team_cache, contexts, turns, user, text, result, ready, serial, calls,
                   returned, appended, added, upsert, cacheVars, clockVars>>

\* the wrapper awaits func
Attempt ==
    /\ retry.pc = "call"
    /\ retry' = attempt(retry)
    /\ UNCHANGED <<team_cache, contexts, turns, user, text, result, ready, serial, calls,
                   returned, appended, added, upsert, cacheVars, clockVars>>

\* the wrapper's sleep is over
AfterSleep ==
    /\ retry.pc = "sleep"
    /\ retry' = after_sleep(retry)
    /\ UNCHANGED <<team_cache, contexts, turns, user, text, result, ready, serial, calls,
                   returned, appended, added, upsert, cacheVars, clockVars>>

NextRetry ==
    \/ \E n \in 0..MaxRetries, side_effect \in SideEffects : CallWrapper(n, side_effect)
    \/ Attempt
    \/ AfterSleep

SpecRetry == Init /\ [][NextRetry]_vars

\* the first of the invocations 1..n that does not raise a retryable
\* exception, 0 if there is none
FirstFinal(side_effect, n) ==
    LET final == {k \in 1..n : Invoke(side_effect, k).kind \notin retry_exceptions}
    IN IF final = {} THEN 0 ELSE CHOOSE k \in final : \A j \in final : k <= j

\* C24: a function wrapped by async_retry(max_retries = n) is invoked at most
\* n + 1 times in a call: the call returns at the first invocation that
\* succeeds, raises at once the first exception outside retry_exceptions, and
\* after n + 1 retryable failures in a row raises the last of them.
C24_AtMostMaxRetriesPlusOneInvocations ==
    LET n == retry.max_retries
        first == FirstFinal(retry.side_effect, n + 1)
    IN /\ retry.call_count <= n + 1
       /\ retry.pc \in {"returned", "raised"} =>
             /\ first # 0 =>
                   /\ retry.call_count = first
                   /\ (retry.pc = "returned") = (Invoke(retry.side_effect, first).kind = "return")
                   /\ retry.pc = "raised" => retry.exception = first
             /\ first = 0 =>
                   /\ retry.call_count = n + 1
                   /\ retry.pc = "raised"
                   /\ retry.exception = n + 1
             /\ Len(retry.slept) = retry.call_count - 1
       /\ retry.pc \in {"call", "sleep"} =>
             \A k \in 1..retry.call_count : Invoke(retry.side_effect, k).kind \in retry_exceptions

\* func failed three times with max_retries = 2: the third error was raised
\* after sleeps of 1 s and 2 s
C24_MaxRetriesExceeded ==
    /\ retry.pc = "raised"
    /\ retry.max_retries = 2
    /\ retry.side_effect = <<ConnectionError>>
    /\ retry.call_count = 3
    /\ retry.exception = 3
    /\ retry.slept = <<1, 2>>
-----------------------------------------------------------------------------
(* IntentProcessor: the calls of one user among those of another *)

UserTexts == {<<"Premier League">>, <<"La Liga">>, <<"standings">>, <<"Arsenal", "matches">>}

\* process_message(u, txt) is called.  For the calls of Subject, serial is the
\* processor that receives no call of any other user: the same call is made
\* on it at the same time.
ProcessMessageOfUser(u, txt) ==
    /\ turns < MaxTurns
    /\ \E run \in {[p \in {"shared", "alone"} |->
                      process_message(IF p = "shared" THEN contexts ELSE serial.contexts,
                                      u, txt, team_cache, now)]} :
          /\ contexts' = run["shared"].contexts
          /\ result' = run["shared"].result
          /\ serial' = IF u = Subject
                       THEN [contexts |-> run["alone"].contexts,
                             results |-> Append(serial.results, run["alone"].result)]
                       ELSE serial
    /\ turns' = turns + 1
    /\ user' = u
    /\ text' = txt
    /\ UNCHANGED <<team_cache, ready, callVars, cacheVars, clockVars>>

NextUsers ==
    \/ \E u \in Users, txt \in UserTexts : ProcessMessageOfUser(u, txt)
    \/ Tick

SpecUsers == Init /\ [][NextUsers]_vars

\* C25: process_message(u, text) leaves the context of every other user as it
\* was (entities, timestamps, recent_intents), and what it returns for u and
\* makes of u's context is what it does when no other user ever calls.
C25_OnlyTheUsersOwnContext ==
    [][turns' = turns + 1 =>
          /\ DOMAIN contexts' = DOMAIN contexts \cup {user'}
          /\ \A v \in DOMAIN contexts \ {user'} : contexts'[v] = contexts[v]
          /\ user' = Subject =>
                /\ result' = serial'.results[Len(serial'.results)]
                /\ contexts'[Subject] = serial'.contexts[Subject]]_vars

\* Subject asked for the standings after another user had named a
\* competition, and the other user's context holds it
C25_StandingsAfterAnotherUsersCompetition ==
    /\ turns = 2
    /\ user = Subject
    /\ text = <<"standings">>
    /\ result.kind = "intent"
    /\ result.intent.name = "get_standings"
    /\ result.intent.entities = <<>>
    /\ "u2" \in DOMAIN contexts
    /\ contexts["u2"].entities # <<>>
    /\ contexts[Subject].entities = <<>>
-----------------------------------------------------------------------------
(* get_most_recent_entities: the claim *)

\* the last direct add_entities call that mentioned an entity, 0 if none did
LastMention(e) ==
    LET mentions == {k \in 1..Len(added) :
                       \E i \in 1..Len(added[k]) : SameEntity(added[k][i], e)}
    IN IF mentions = {} THEN 0 ELSE Greatest(mentions)

\* C26: get_most_recent_entities(limit) returns at most limit entities, none
\* expired, in descending order of their stored timestamps, so that an
\* entity mentioned in a later add_entities call comes before every entity
\* last mentioned in an earlier call.
C26_LaterMentionsComeFirst ==
    (returned.op = "get_most_recent_entities" /\ turns = 0) =>
        /\ Len(returned.entities) <= RecentLimit
        /\ \A i \in 1..Len(returned.entities) :
              /\ is_entity_active(SubjectContext, returned.entities[i], returned.at)
              /\ \A j \in (i + 1)..Len(returned.entities) :
                    /\ timestamp_of(SubjectContext, returned.entities[i])
                          >= timestamp_of(SubjectContext, returned.entities[j])
                    /\ LastMention(returned.entities[i]) >= LastMention(returned.entities[j])
-----------------------------------------------------------------------------
(* api_params: the ids they carry *)

\* the canonical ids of the entities of a type that the last message names
NamedIds(type) ==
    {TurnEntities[i].id : i \in {j \in 1..Len(TurnEntities) :
                                   TurnEntities[j].type = type /\ TurnEntities[j].id # NoId}}

\* C28: when the message names a competition with a canonical id and the
\* resource of the returned Intent needs {id}, api_params.competition_id is
\* the id of a competition of the message, whatever earlier turns have left in
\* the context; and likewise team_id for a team of the message.
C28_CurrentMessageIsNotOverridden ==
    (/\ turns > 0
     /\ result.kind = "intent"
     /\ result.intent.api_resource # None
     /\ Contains(result.intent.api_resource[1].uri, IdPlaceholder)) =>
        /\ NamedIds(COMPETITION) # {} =>
              /\ "competition_id" \in result.intent.api_params.keys
              /\ result.intent.api_params.competition_id \in NamedIds(COMPETITION)
        /\ NamedIds(TEAM) # {} =>
              /\ "team_id" \in result.intent.api_params.keys
              /\ result.intent.api_params.team_id \in NamedIds(TEAM)
\* C29: an Intent get_matches returned for a message that names no
\* competition and no team has its base confidence, 0.7 from the pattern
\* rule or 0.6 from the timeframe inference, and the resource /v4/matches,
\* which has no required parameter.
C29_MatchesWithoutCompetitionUnpenalized ==
    (/\ turns > 0
     /\ result.kind = "intent"
     /\ result.intent.name = "get_matches"
     /\ ~HasType(TurnEntities, COMPETITION)
     /\ ~HasType(TurnEntities, TEAM)) =>
        /\ result.intent.confidence \in {Pct(70), Pct(60)}
        /\ result.intent.api_resource # None
        /\ result.intent.api_resource[1].uri = <<"/", "v4", "/", "matches">>
        /\ result.intent.api_resource[1].required_params = {}
\* the confidences the rules of _detect_intent give an intent
BaseConfidences == {Pct(80), Pct(70), Pct(60), Pct(50), Pct(40)}

\* C30: competition_id and team_id in the api_params of a returned Intent are
\* canonical ids, never None; and an Intent whose resource requires id and
\* whose competition and team entities all lack an id has its confidence
\* halved.
C30_IdParamsAreCanonicalIds ==
    (turns > 0 /\ result.kind = "intent") =>
        LET intent == result.intent
            bound == SelectSeq(intent.entities, LAMBDA s : s.entity.type \in {COMPETITION, TEAM})
        IN /\ "competition_id" \in intent.api_params.keys => intent.api_params.competition_id # NoId
           /\ "team_id" \in intent.api_params.keys => intent.api_params.team_id # NoId
           /\ (/\ intent.api_resource # None
               /\ "id" \in intent.api_resource[1].required_params
               /\ bound # <<>>
               /\ \A i \in 1..Len(bound) : bound[i].entity.id = NoId) =>
                  intent.confidence \in {c \div 2 : c \in BaseConfidences}
-----------------------------------------------------------------------------
(* _detect_intent: the rules that propose intents *)

\* messages with several lexical cues, with entities only, and with neither
DetectTexts == {
    <<"standings", "matches">>,
    <<"timetable", "vs">>,
    <<"matches", "team">>,
    <<"team", "scorer", "Premier League">>,
    <<"Premier League">>,
    <<"competition", "Premier League">>,
    <<"outstanding", "La Liga">>,
    <<"Premier League", "Arsenal">>,
    <<"Arsenal">>,
    <<"tomorrow">>,
    <<"live">>,
    <<"hello">> }

NextDetect ==
    \/ \E txt \in DetectTexts : ProcessMessage(Subject, txt)
    \/ Tick

SpecDetect == Init /\ [][NextDetect]_vars

\* the intents the rules propose for the message of a call, in the order of
\* the rules
Proposed(txt, ctxs, u) ==
    matched_intents(text_lower(txt), extract_entities(txt, team_cache, now), ContextOf(ctxs, u, now))

\* C31: the Intent returned is the first proposed of the candidates of the
\* highest confidence.  A text that contains "standings" or "table" yields
\* get_standings at base 0.8, whatever other patterns match; a text that
\* matches the matches pattern and the team pattern, and no standings cue,
\* yields get_matches.
C31_FirstProposedOfHighestConfidence ==
    [][turns' = turns + 1 =>
        LET tl == text_lower(text')
            cands == Proposed(text', contexts, user')
        IN /\ result'.kind = "intent" =>
                 \E i \in 1..Len(cands) :
                    /\ cands[i].name = result'.intent.name
                    /\ result'.intent.confidence \in {cands[i].confidence, cands[i].confidence \div 2}
                    /\ \A j \in 1..Len(cands) : cands[j].confidence <= cands[i].confidence
                    /\ \A j \in 1..(i - 1) : cands[j].confidence < cands[i].confidence
           /\ (InMessage("standings", tl) \/ InMessage("table", tl)) =>
                 /\ result'.kind = "intent"
                 /\ result'.intent.name = "get_standings"
                 /\ result'.intent.confidence \in {Pct(80), Pct(80) \div 2}
           /\ (/\ Searches(INTENT_PATTERNS[2].words, tl)
               /\ Searches(INTENT_PATTERNS[3].words, tl)
               /\ ~Searches(INTENT_PATTERNS[1].words, tl)
               /\ ~(InMessage("standings", tl) \/ InMessage("table", tl))) =>
                 /\ result'.kind = "intent"
                 /\ result'.intent.name = "get_matches"]_vars

\* "matches team" returned get_matches, and "timetable vs" get_standings
\* before it
C31_MatchesBeforeTeam ==
    /\ turns = 2
    /\ text = <<"matches", "team">>
    /\ result.kind = "intent"
    /\ result.intent.name = "get_matches"
    /\ Len(contexts[Subject].recent_intents) = 2
    /\ contexts[Subject].recent_intents[1].name = "get_standings"
    /\ contexts[Subject].recent_intents[1].entities = <<>>
\* whether a lexical rule matches a message: the explicit rule or a pattern
LexicalCue(tl) ==
    \/ InMessage("standings", tl) \/ InMessage("table", tl)
    \/ \E r \in 1..Len(INTENT_PATTERNS) : Searches(INTENT_PATTERNS[r].words, tl)

\* the Intent returned has a name and a base confidence, as it is or halved
Yields(res, intent_name, base) ==
    /\ res.kind = "intent"
    /\ res.intent.name = intent_name
    /\ res.intent.confidence \in {base, base \div 2}

\* C32: the inference from entities decides only when no lexical rule
\* matches, and then: Competition and Team -> get_competition_teams (0.6);
\* Competition alone -> get_competition (0.6), or get_standings (0.7) if the
\* text contains "standing" or "table"; Team alone -> get_team_matches (0.6);
\* Timeframe with neither -> get_matches (0.6).
C32_InferenceFromEntities ==
    [][turns' = turns + 1 =>
        LET tl == text_lower(text')
            entities == extract_entities(text', team_cache, now)
            competition == HasType(entities, COMPETITION)
            team == HasType(entities, TEAM)
        IN /\ (LexicalCue(tl) /\ result'.kind = "intent") =>
                 /\ result'.intent.confidence \in {Pct(80), Pct(70), Pct(80) \div 2, Pct(70) \div 2}
                 /\ \/ result'.intent.name = "get_standings"
                    \/ \E r \in 1..Len(INTENT_PATTERNS) :
                          /\ Searches(INTENT_PATTERNS[r].words, tl)
                          /\ INTENT_PATTERNS[r].intent = result'.intent.name
           /\ ~LexicalCue(tl) =>
                 /\ (competition /\ team) => Yields(result', "get_competition_teams", Pct(60))
                 /\ (competition /\ ~team) =>
                       IF InMessage("standing", tl) \/ InMessage("table", tl)
                       THEN Yields(result', "get_standings", Pct(70))
                       ELSE Yields(result', "get_competition", Pct(60))
                 /\ (team /\ ~competition) => Yields(result', "get_team_matches", Pct(60))
                 /\ (HasType(entities, TIMEFRAME) /\ ~team /\ ~competition) =>
                       Yields(result', "get_matches", Pct(60))]_vars

\* "Premier League Arsenal" returned get_competition_teams with the team
\* table loaded, after "outstanding La Liga" returned get_standings at 0.7
C32_CompetitionAndTeam ==
    /\ turns = 2
    /\ text = <<"Premier League", "Arsenal">>
    /\ team_cache # NoTeamCache
    /\ result.kind = "intent"
    /\ result.intent.name = "get_competition_teams"
    /\ result.intent.confidence = Pct(60)
    /\ contexts[Subject].recent_intents[1].name = "get_standings"
    /\ contexts[Subject].recent_intents[1].confidence = Pct(70)
\* recent_intents of a user, empty while the user has no context
RecentIntents(ctxs, u) == IF u \in DOMAIN ctxs THEN ctxs[u].recent_intents ELSE <<>>

\* C33: for a message with no lexical cue and no Competition, Team or
\* Timeframe entity, process_message returns the last intent of the user's
\* context again, at base confidence 0.4, and returns none and leaves
\* recent_intents as it was if there is no last intent.  Every Intent
\* returned is the last of recent_intents when the call returns.
C33_FollowUpRepeatsLastIntent ==
    [][turns' = turns + 1 =>
        LET tl == text_lower(text')
            entities == extract_entities(text', team_cache, now)
            before == RecentIntents(contexts, user')
            after == RecentIntents(contexts', user')
        IN /\ (/\ ~LexicalCue(tl)
               /\ ~HasType(entities, COMPETITION)
               /\ ~HasType(entities, TEAM)
               /\ ~HasType(entities, TIMEFRAME)) =>
                 IF before # <<>>
                 THEN Yields(result', before[Len(before)].name, Pct(40))
                 ELSE result'.kind = "none" /\ after = <<>>
           /\ result'.kind = "intent" =>
                 /\ after # <<>>
                 /\ after[Len(after)].name = result'.intent.name
                 /\ after[Len(after)].confidence = result'.intent.confidence
                 /\ after[Len(after)].entities = result'.intent.entities
                 /\ after[Len(after)].timestamp = now
           /\ result'.kind # "intent" => after = before]_vars

\* "live" repeated get_team_matches, with the team taken from the context
C33_FollowUpOfTeamMatches ==
    /\ turns = 2
    /\ text = <<"live">>
    /\ result.kind = "intent"
    /\ result.intent.name = "get_team_matches"
    /\ result.intent.confidence = Pct(40)
    /\ Len(contexts[Subject].recent_intents) = 2
    /\ contexts[Subject].recent_intents[1].name = "get_team_matches"
    /\ contexts[Subject].recent_intents[1].confidence = Pct(60)
\* the highest confidence among candidates
BaseConfidence(cands) ==
    CHOOSE c \in {cands[i].confidence : i \in 1..Len(cands)} :
        \A j \in 1..Len(cands) : cands[j].confidence <= c

\* C34: the confidence returned is the base confidence of the chosen
\* candidate when the resource has no required parameter or competition_id
\* or team_id was bound, and half of it otherwise; a message for which a
\* candidate was proposed is never answered with none.
C34_HalvedWhenIdMissing ==
    [][turns' = turns + 1 =>
        LET cands == Proposed(text', contexts, user')
            intent == result'.intent
        IN /\ cands # <<>> => result'.kind # "none"
           /\ result'.kind = "intent" =>
                 /\ cands # <<>>
                 /\ intent.api_resource # None
                 /\ intent.confidence =
                       IF \/ intent.api_resource[1].required_params = {}
                          \/ "competition_id" \in intent.api_params.keys
                          \/ "team_id" \in intent.api_params.keys
                       THEN BaseConfidence(cands)
                       ELSE BaseConfidence(cands) \div 2]_vars

\* "tomorrow" was answered with get_matches at half of 0.6, after a message
\* answered at its base confidence
C34_MatchesAtHalfConfidence ==
    /\ turns = 2
    /\ text = <<"tomorrow">>
    /\ result.kind = "intent"
    /\ result.intent.name = "get_matches"
    /\ result.intent.confidence = Pct(60) \div 2
    /\ result.intent.api_params.keys = {"date_from", "date_to"}
    /\ contexts[Subject].recent_intents[1].name = "get_competition"
    /\ contexts[Subject].recent_intents[1].confidence = Pct(60)
-----------------------------------------------------------------------------
(* _detect_intent: entities taken from the context *)

\* the type of entity an intent needs for {id}, "" if neither
NeededType(intent_name) ==
    IF intent_name \in {"get_standings", "get_competition", "get_competition_teams",
                        "get_competition_scorers"}
    THEN COMPETITION
    ELSE IF intent_name \in {"get_team", "get_team_matches"} THEN TEAM
    ELSE ""

\* the entities of a type in a user's context that are not expired at a time
Unexpired(ctxs, u, type, t) ==
    LET ctx == ContextOf(ctxs, u, t)
    IN SelectSeq(EntitiesOfType(ctx, type), LAMBDA e : is_entity_active(ctx, e, t))

\* C35: when the resource of the returned Intent needs {id}, the message has
\* no Competition or Team entity, and the context holds an unexpired entity
\* of the type the intent needs, the Intent has an entity of the context of
\* that type bound and the id parameter set; also for a follow-up intent.
C35_ContextFillsTheId ==
    [][(/\ turns' = turns + 1
        /\ result'.kind = "intent"
        /\ result'.intent.api_resource # None
        /\ Contains(result'.intent.api_resource[1].uri, IdPlaceholder)
        /\ ~HasType(extract_entities(text', team_cache, now), COMPETITION)
        /\ ~HasType(extract_entities(text', team_cache, now), TEAM)
        /\ NeededType(result'.intent.name) # ""
        /\ Unexpired(contexts, user', NeededType(result'.intent.name), now) # <<>>) =>
          LET type == NeededType(result'.intent.name)
              slots == SlotsOfType(result'.intent, type)
          IN /\ slots # <<>>
             /\ \A i \in 1..Len(slots) :
                   slots[i].entity \in Range(Unexpired(contexts, user', type, now))
             /\ (type \o "_id") \in result'.intent.api_params.keys]_vars
\* C36: an entity the backfill binds (slot competition_context or
\* team_context) is an unexpired entity of its type in the user's context,
\* and none of them has a greater decayed confidence at the time of the call.
C36_BackfillTakesHighestDecayedConfidence ==
    [][(turns' = turns + 1 /\ result'.kind = "intent") =>
        \A i \in 1..Len(result'.intent.entities) :
            LET slot == result'.intent.entities[i]
                ctx == contexts'[user']
                stored == Unexpired(contexts', user', slot.entity.type, now)
            IN slot.name \in ContextSlots =>
                  /\ slot.name = slot.entity.type \o "_context"
                  /\ slot.entity \in Range(stored)
                  /\ \A k \in 1..Len(stored) :
                        get_entity_confidence(ctx, stored[k], now)
                            <= get_entity_confidence(ctx, slot.entity, now)]_vars

\* "standings" took the Premier League from a context that holds the word
\* "competition" first, at a lower confidence
C36_SecondStoredCompetitionTaken ==
    /\ turns = 2
    /\ text = <<"standings", "matches">>
    /\ result.kind = "intent"
    /\ Len(EntitiesOfType(contexts[Subject], COMPETITION)) = 2
    /\ Len(contexts[Subject].recent_intents) = 2
    /\ contexts[Subject].recent_intents[1].entities[1].entity.value = "competition"
    /\ \E i \in 1..Len(result.intent.entities) :
          /\ result.intent.entities[i].name = "competition_context"
          /\ result.intent.entities[i].entity.value = "Premier League"
-----------------------------------------------------------------------------
(* EntityCache: the two indexes, with loads made one after the other *)

\* get_competition after the wait: by id for an int or an all-digit string,
\* else by name
GetCompetitionResult(st, arg) ==
    IF arg[1] \in {"int", "digits"}
    THEN Get(st.competitions_by_id, IntKey(arg[3]))
    ELSE Get(st.competitions, arg[2])

\* an argument of get_competition
OfCompetition(arg) == Append(arg, "competition")
IsOfCompetition(arg) == Len(arg) = 4

LookupKeys ==
    {NameArg("Arsenal"), NameArg("Chelsea"), IntArg(57), DigitsArg(57), IntArg(58),
     OfCompetition(NameArg("Premier League")), OfCompetition(IntArg(2021)),
     OfCompetition(DigitsArg(2021))}

LookupResult(st, arg) ==
    IF IsOfCompetition(arg) THEN GetCompetitionResult(st, arg) ELSE GetTeamResult(st, arg)

\* get_team(arg) or get_competition(arg) up to its return, or up to its
\* suspension on the gate
GetEntity(r) ==
    /\ rpc[r] = "idle"
    /\ \E arg \in LookupKeys :
         /\ rkey' = [rkey EXCEPT ![r] = arg]
         /\ IF load_event
            THEN /\ rres' = [rres EXCEPT ![r] = LookupResult(CacheState, arg)]
                 /\ rpc' = [rpc EXCEPT ![r] = "done"]
            ELSE /\ rpc' = [rpc EXCEPT ![r] = "waiting"]
                 /\ UNCHANGED rres
    /\ UNCHANGED <<teams, teams_by_id, competitions, competitions_by_id, load_event,
                   football_api, disk, ipc, iidx, silent, fetch_log, clockVars, procVars>>

\* the call woken by load_event.set() runs on: the lookup
ResumeGetEntity(r) ==
    /\ rpc[r] = "woken"
    /\ rres' = [rres EXCEPT ![r] = LookupResult(CacheState, rkey[r])]
    /\ rpc' = [rpc EXCEPT ![r] = "done"]
    /\ UNCHANGED <<teams, teams_by_id, competitions, competitions_by_id, load_event,
                   football_api, disk, ipc, iidx, silent, rkey, fetch_log, clockVars,
                   procVars>>

\* initialize() called when every earlier initialize() has returned
InitializeNext(i) ==
    /\ \A j \in Inits : j < i => ipc[j] = "done"
    /\ Initialize(i)

\* add_team that writes the name index only
AddByNameOnly(st, team_data) ==
    IF team_data.name # NoName /\ team_data.id # NoId
    THEN [st EXCEPT !.teams = Put(@, team_data.name, team_data)]
    ELSE st

\* add_team(team_data): if team_name and team_id, both indexes are written;
\* otherwise a warning is logged
add_team(st, team_data) ==
    IF team_data.name # NoName /\ team_data.id # NoId
    THEN [st EXCEPT !.teams = Put(@, team_data.name, team_data),
                    !.teams_by_id = Put(@, IntKey(team_data.id), team_data)]
    ELSE st

add_competition(st, competition_data) ==
    IF competition_data.name # NoName /\ competition_data.id # NoId
    THEN [st EXCEPT !.competitions = Put(@, competition_data.name, competition_data),
                    !.competitions_by_id = Put(@, IntKey(competition_data.id),
                                               competition_data)]
    ELSE st

MaxUpserts == 2    \* add_team / add_competition calls made on the one cache

\* the records the calls are made with: two teams, a team without a name, one
\* without an id, Arsenal under another name, and Arsenal under another id
AddableTeams ==
    {Arsenal, Barcelona, Nameless, [name |-> "Chelsea", id |-> NoId],
     [name |-> "Arsenal FC", id |-> 57], [name |-> "Arsenal", id |-> 58]}
AddableCompetitions ==
    {PremierLeague, [name |-> "EPL", id |-> 2021], [name |-> NoName, id |-> 2014]}

\* the call made: it returned (no statement of it raises), and whether it
\* repeats the call before it
Upsert(op, data) ==
    [op |-> op, data |-> data, outcome |-> "returned",
     repeat |-> (upsert.op = op /\ upsert.data = data), n |-> upsert.n + 1]

\* one call of add_team: it has no await
AddTeamCall(team_data) ==
    /\ upsert.n < MaxUpserts
    /\ SetIndexes(add_team(CacheState, team_data))
    /\ upsert' = Upsert("add_team", team_data)
    /\ UNCHANGED <<load_event, football_api, disk, ipc, iidx, silent, rpc, rkey, rres,
                   fetch_log, clockVars, team_cache, contexts, turns, user, text,
                   result, ready, serial, calls, returned, appended, added, retry>>

\* one call of add_competition
AddCompetitionCall(competition_data) ==
    /\ upsert.n < MaxUpserts
    /\ SetIndexes(add_competition(CacheState, competition_data))
    /\ upsert' = Upsert("add_competition", competition_data)
    /\ UNCHANGED <<load_event, football_api, disk, ipc, iidx, silent, rpc, rkey, rres,
                   fetch_log, clockVars, team_cache, contexts, turns, user, text,
                   result, ready, serial, calls, returned, appended, added, retry>>

\* lookups on a cache whose initialize() calls are made one after the other
NextLookups ==
    \/ \E i \in Inits : InitializeNext(i)
    \/ \E i \in Inits : CompetitionsReturn(i)
    \/ \E i \in Inits : TeamsReturn(i)
    \/ \E r \in Readers : GetEntity(r)
    \/ \E r \in Readers : ResumeGetEntity(r)

SpecLookups == InitCache /\ [][NextLookups]_vars

\* add_team and add_competition calls on such a cache
NextIndexes ==
    \/ \E i \in Inits : InitializeNext(i)
    \/ \E i \in Inits : CompetitionsReturn(i)
    \/ \E i \in Inits : TeamsReturn(i)
    \/ \E team_data \in AddableTeams : AddTeamCall(team_data)
    \/ \E competition_data \in AddableCompetitions : AddCompetitionCall(competition_data)

SpecIndexes == InitCache /\ [][NextIndexes]_vars

\* the records an id index holds under the id, whatever the type of the key
HeldUnderId(index, id) == {index[k] : k \in {x \in DOMAIN index : x[2] = id}}

IdIndexOf(arg) == IF IsOfCompetition(arg) THEN competitions_by_id ELSE teams_by_id
NameIndexOf(arg) == IF IsOfCompetition(arg) THEN competitions ELSE teams

\* C37: a lookup by an integer or an all-digit string returns the record the
\* id index holds under that id, or none if it holds no such record, whether
\* the index was filled from the data source or read back from the files; a
\* lookup by any other string returns what the name index holds under it.
C37_LookupByIdAfterAnyLoad ==
    [][\A r \in Readers :
          (rpc[r] # "done" /\ rpc'[r] = "done") =>
              LET arg == rkey'[r]
                  held == HeldUnderId(IdIndexOf(arg), arg[3])
              IN IF arg[1] \in {"int", "digits"}
                 THEN IF held = {} THEN rres'[r] = None
                      ELSE \E rec \in held : rres'[r] = Some(rec)
                 ELSE rres'[r] = Get(NameIndexOf(arg), arg[2])]_vars
\* the records an index holds
Records(index) == {index[k] : k \in DOMAIN index}

\* C38: the name index and the id index hold the same records, of teams and of
\* competitions, whatever add_team and add_competition calls and loads were made.
C38_IndexesHoldTheSameRecords ==
    /\ Records(teams) = Records(teams_by_id)
    /\ Records(competitions) = Records(competitions_by_id)
\* C39: a call of add_team / add_competition returns without raising; with a
\* record that has a name and an id, both indexes map to the record afterwards,
\* and a call made when they already do (the record was added before) changes
\* nothing; with a record missing its name or its id, no index changes.
C39_AddIsAnIdempotentUpsert ==
    [][upsert'.n = upsert.n + 1 =>
        LET data == upsert'.data
            team == upsert'.op = "add_team"
            names == IF team THEN teams ELSE competitions
            ids == IF team THEN teams_by_id ELSE competitions_by_id
            names_after == IF team THEN teams' ELSE competitions'
            ids_after == IF team THEN teams_by_id' ELSE competitions_by_id'
        IN /\ upsert'.outcome = "returned"
           /\ IF data.name # NoName /\ data.id # NoId
              THEN /\ Get(names_after, data.name) = Some(data)
                   /\ Get(ids_after, IntKey(data.id)) = Some(data)
                   /\ (Get(names, data.name) = Some(data)
                         /\ Get(ids, IntKey(data.id)) = Some(data))
                      => CacheState' = CacheState
              ELSE CacheState' = CacheState]_vars

\* add_team was called twice in a row with the Arsenal record
C39_ArsenalAddedTwice ==
    /\ upsert.n = 2
    /\ upsert.repeat
    /\ upsert.op = "add_team"
    /\ upsert.data = Arsenal
    /\ \A i \in Inits : ipc[i] = "idle"
    /\ teams = Put(EmptyIndex, "Arsenal", Arsenal)
    /\ teams_by_id = Put(EmptyIndex, IntKey(57), Arsenal)
-----------------------------------------------------------------------------
(* FootballCommands.process_conversation: the message path of the bot *)

\* the messages sent to the bot
BotTexts == { <<"Arsenal", "vs">>, <<"Arsenal", "standings">>, <<"Premier League">> }

\* process_conversation from the return of the relevance check, for a relevant
\* message: the first call constructs EntityCache(football_api),
\* EntityExtractor() and the IntentProcessor and creates the initialize() task;
\* every call then awaits process_message, which runs through
ProcessConversation(u, txt) == ProcessMessage(u, txt)

\* the task created by the first call gets its turn: initialize() up to its
\* first await
InitializeTask ==
    /\ turns > 0
    /\ Initialize(1)

NextBot ==
    \/ \E txt \in BotTexts : ProcessConversation(Subject, txt)
    \/ InitializeTask
    \/ CompetitionsReturn(1)
    \/ TeamsReturn(1)

SpecBot == InitCache /\ [][NextBot]_vars

\* the teams of the cache's name index that the message names
NamedCachedTeams(txt) ==
    {name \in DOMAIN teams : \E i \in 1..Len(txt) : text_lower(txt)[i] = Lower(name)}

\* C40: a message sent after initialize() has completed yields a team entity
\* for every team of the cache's index that it names.
C40_CachedTeamsAreExtracted ==
    [][(turns' = turns + 1 /\ ipc[1] = "done") =>
          \A name \in NamedCachedTeams(text') :
              \E i \in 1..Len(EntitiesOfType(contexts'[user'], TEAM)) :
                  EntitiesOfType(contexts'[user'], TEAM)[i].value = name]_vars

====
